---- MODULE Spec2Model ----
\* Model of polymarket-pro-rust: the trading cycle of src/main.rs with the
\* executor, order ledger and position book it drives, and the streaming
\* price feed of src/websocket/mod.rs.
\*
\* Two specifications share the variables:
\*   Spec      the trading cycle against the venue, with a feed task streaming;
\*   SpecFeed  the feed's connection tasks and its start/update_subscription.
EXTENDS Integers, Sequences, FiniteSets, TLC

\* ------------------------------------------------------------------------
\* f64 values are modelled as exact rationals [n, d] in lowest terms, d > 0.
\* ------------------------------------------------------------------------
RECURSIVE GCD(_, _)
GCD(a, b) == IF b = 0 THEN a ELSE GCD(b, a % b)

AbsInt(x) == IF x < 0 THEN -x ELSE x

R(n, d) ==
    LET g == GCD(AbsInt(n), d)
    IN  IF n = 0 THEN [n |-> 0, d |-> 1]
        ELSE IF n > 0 THEN [n |-> n \div g, d |-> d \div g]
        ELSE [n |-> -(AbsInt(n) \div g), d |-> d \div g]

RZero == R(0, 1)
RAdd(a, b) == R(a.n * b.d + b.n * a.d, a.d * b.d)
RSub(a, b) == R(a.n * b.d - b.n * a.d, a.d * b.d)
RMul(a, b) == R(a.n * b.n, a.d * b.d)
RDiv(a, b) == IF b.n > 0 THEN R(a.n * b.d, a.d * b.n) ELSE R(-(a.n * b.d), a.d * (-b.n))
\* a < b and a <= b: the integer parts are compared first, the fractions by
\* cross-multiplication, so that large values stay within the integers of TLC
RLt(a, b) ==
    IF a.n \div a.d # b.n \div b.d THEN a.n \div a.d < b.n \div b.d
    ELSE (a.n % a.d) * b.d < (b.n % b.d) * a.d
RLe(a, b) == ~RLt(b, a)
RMin(a, b) == IF RLt(b, a) THEN b ELSE a
RMax(a, b) == IF RLt(a, b) THEN b ELSE a
RAbs(a) == [n |-> AbsInt(a.n), d |-> a.d]
\* f64::round: to the nearest integer, halves away from zero
RRound(a) ==
    IF a.n >= 0 THEN (2 * a.n + a.d) \div (2 * a.d)
    ELSE -((2 * (-a.n) + a.d) \div (2 * a.d))
\* (x * 100.0).round() / 100.0
RoundCents(x) == R(RRound(RMul(x, R(100, 1))), 100)

\* ------------------------------------------------------------------------
\* Instrument identifiers are strings, modelled as sequences of digits.
\* ------------------------------------------------------------------------
ShortLen == 20

\* &token_id[..20] when the identifier is longer than 20 characters
ShortTokenId(token_id) ==
    IF Len(token_id) > ShortLen THEN SubSeq(token_id, 1, ShortLen) ELSE token_id

\* format!("{}_bid", id) / format!("{}_ask", id)
BidKey(id) == <<id, "_bid">>
AskKey(id) == <<id, "_ask">>

\* A wire identifier: a 20-digit prefix made of k, then two more digits.
LongId(k, s) == [i \in 1..ShortLen |-> k] \o <<s, s>>

UpToken == LongId(1, 1)
DownToken == LongId(2, 2)
OldToken == LongId(3, 3)
MarketTokens == {UpToken, DownToken}


\* Option<T>
None == <<>>
Some(x) == <<x>>

\* ------------------------------------------------------------------------
\* Bounds of the exploration.
\* ------------------------------------------------------------------------
\* trading ticks start a cycle only while fewer orders than this were placed
MaxOrders == 3
\* configured max_total_position, in whole units of the settlement asset
MaxTotalUnits == 1
\* connection tasks ever spawned in SpecFeed
MaxTasks == 2

\* ------------------------------------------------------------------------
\* TradingConfig (src/config/mod.rs); the values are the defaults except
\* max_total_position, which is an input of the exploration.
\* ------------------------------------------------------------------------
order_size == R(1, 1)
max_position == R(5, 1)
max_total_position == R(MaxTotalUnits, 1)
merge_threshold == R(1, 2)
min_price == R(1, 100)
max_price == R(99, 100)
safe_range_low == R(1, 100)
safe_range_high == R(99, 100)
spread == R(2, 100)
BUFFER_RATIO == R(115, 100)
max_skew_threshold == R(4, 10)

\* Inputs drawn from the environment.
\* best bid / best ask prices carried by feed messages
FeedBid == R(69, 100)
FeedAsk == R(71, 100)
\* balances the balance endpoint can report
BalanceValues == {R(0, 1), R(100, 1)}
\* identifiers of assets that feed messages can carry
AssetIds == {UpToken, DownToken, OldToken}

VARIABLES
    \* --- executor / venue
    simulation_mode,    \* TradeExecutor.simulation_mode
    venue_open,         \* the venue's open orders of this account
    next_order_id,      \* the id the venue gives to the next accepted order
    \* --- main loop and trading cycle
    first_cycle,        \* main(): let mut first_cycle
    order_tracker,      \* OrderTracker.orders: token -> ActiveOrder
    position_tracker,   \* PositionTracker.positions: market_id -> Position
    orders_placed,      \* TradingStats.orders_placed
    cyc,                \* the locals of run_trading_cycle_single_market_inner
    call,               \* the frame of cancel_orders_for_market
    poc,                \* the frame of place_order_complete
    hist,               \* history of the current cycle (for the properties)
    \* --- streaming feed
    running,            \* PolymarketWebSocket.running
    subscribed_tokens,  \* PolymarketWebSocket.subscribed_tokens
    last_prices,        \* PolymarketWebSocket.last_prices: key -> price
    msg_counter,        \* PolymarketWebSocket.msg_counter
    tasks,              \* the connection tasks spawned so far
    us,                 \* the frame of start / update_subscription
    written,            \* history: the keys inserted since the latest update_subscription began
    \* --- components exercised on their own
    book_log,           \* history: the PositionTracker calls made so far
    ledger_ret,         \* the value returned by the latest OrderTracker::clear_orders_for_token
    retry,              \* the frame of retry_with_backoff and the operation it drives
    limiter,            \* utils::rate_limiter::RateLimiter and the clock
    \* --- the select! loop of main()
    main,               \* the loop, the shutdown channel and TradingStats
    \* --- tokio locks
    locks,              \* the RwLocks shared by the tasks, and each task's position
    rate_limiter        \* TradeExecutor.rate_limiter and the tasks calling wait()

execVars == <<simulation_mode, venue_open, next_order_id>>
cycleVars == <<first_cycle, order_tracker, position_tracker, orders_placed, cyc, call, poc, hist>>
feedVars == <<running, subscribed_tokens, msg_counter, tasks, us>>
cacheVars == <<last_prices, written>>
utilVars == <<book_log, ledger_ret, retry, limiter, main, locks, rate_limiter>>
vars == <<execVars, cycleVars, feedVars, cacheVars, utilVars>>

\* the components that a specification does not exercise stay as constructed
RetryIdle == [pc |-> "idle"]
LimiterIdle == [pc |-> "idle"]

\* main() when it enters its loop: nothing sent on the shutdown channel,
\* TradingStats.errors = 0, no statistics written by the shutdown arm
MainLoop == [pc |-> "loop", shutdown |-> "none", errors |-> 0, saved |-> None, market |-> 1]
\* no task has asked for a lock
LocksFree == [pc |-> <<>>, held |-> {}, queue |-> <<>>]
\* the executor's RateLimiter before TradeExecutor::new has built it
RateLimiterUnbuilt == [pc |-> "unbuilt"]

UtilInit ==
    /\ book_log = <<>>
    /\ ledger_ret = None
    /\ retry = RetryIdle
    /\ limiter = LimiterIdle
    /\ main = MainLoop
    /\ locks = LocksFree
    /\ rate_limiter = RateLimiterUnbuilt

\* ------------------------------------------------------------------------
\* Price cache reads (src/websocket/mod.rs)
\* ------------------------------------------------------------------------
\* a get_price that fills a missing side with 0.5 instead of returning None
get_price_or_default(prices, token_id) ==
    LET short_token_id == ShortTokenId(token_id)
        bid_key == BidKey(short_token_id)
        ask_key == AskKey(short_token_id)
    IN  Some(<<IF bid_key \in DOMAIN prices THEN prices[bid_key] ELSE R(1, 2),
               IF ask_key \in DOMAIN prices THEN prices[ask_key] ELSE R(1, 2)>>)

\* PolymarketWebSocket::get_price
get_price(prices, token_id) ==
    LET short_token_id == ShortTokenId(token_id)
        bid_key == BidKey(short_token_id)
        ask_key == AskKey(short_token_id)
    IN  IF bid_key \in DOMAIN prices /\ ask_key \in DOMAIN prices
        THEN Some(<<prices[bid_key], prices[ask_key]>>)
        ELSE None

\* tokens.iter() of a Vec<String>
SeqRange(s) == {s[i] : i \in 1..Len(s)}

\* PolymarketWebSocket::get_all_prices
get_all_prices(prices, tokens) ==
    LET has(token) == /\ BidKey(ShortTokenId(token)) \in DOMAIN prices
                      /\ AskKey(ShortTokenId(token)) \in DOMAIN prices
    IN  [token \in {t \in SeqRange(tokens) : has(t)} |->
            <<prices[BidKey(ShortTokenId(token))], prices[AskKey(ShortTokenId(token))]>>]

\* HashMap::insert
MapInsert(m, k, v) == [x \in DOMAIN m \cup {k} |-> IF x = k THEN v ELSE m[x]]

\* ------------------------------------------------------------------------
\* PositionTracker (src/trading/position.rs)
\* ------------------------------------------------------------------------
\* an update_position whose flip branch keeps the whole incoming size
update_position_flip_whole(positions, market_id, side, size, price) ==
    IF market_id \in DOMAIN positions
    THEN LET pos == positions[market_id]
             total_value == RAdd(RMul(pos.total_size, pos.avg_price), RMul(size, price))
             new_pos ==
                IF pos.side = side
                THEN [pos EXCEPT !.total_size = RAdd(pos.total_size, size),
                                 !.avg_price = RDiv(total_value, RAdd(pos.total_size, size))]
                ELSE IF RLe(pos.total_size, size)
                THEN [pos EXCEPT !.side = side, !.total_size = size, !.avg_price = price]
                ELSE [pos EXCEPT !.total_size = RSub(pos.total_size, size)]
         IN  [positions EXCEPT ![market_id] = new_pos]
    ELSE MapInsert(positions, market_id,
                   [market_id |-> market_id, side |-> side,
                    total_size |-> size, avg_price |-> price])

\* PositionTracker::update_position (the entries log is write-only and left out)
update_position(positions, market_id, side, size, price) ==
    IF market_id \in DOMAIN positions
    THEN LET pos == positions[market_id]
             total_value == RAdd(RMul(pos.total_size, pos.avg_price), RMul(size, price))
             new_pos ==
                IF pos.side = side
                THEN [pos EXCEPT !.total_size = RAdd(pos.total_size, size),
                                 !.avg_price = RDiv(total_value, RAdd(pos.total_size, size))]
                ELSE IF RLe(pos.total_size, size)
                THEN [pos EXCEPT !.side = side,
                                 !.total_size = RSub(size, pos.total_size),
                                 !.avg_price = price]
                ELSE [pos EXCEPT !.total_size = RSub(pos.total_size, size)]
         IN  [positions EXCEPT ![market_id] = new_pos]
    ELSE MapInsert(positions, market_id,
                   [market_id |-> market_id, side |-> side,
                    total_size |-> size, avg_price |-> price])

RECURSIVE SideSize(_, _, _)
\* the sum of total_size over the positions of one side, prices ignored
SideSize(positions, keys, side) ==
    IF keys = {} THEN RZero
    ELSE LET k == CHOOSE x \in keys : TRUE
             v == IF positions[k].side = side THEN positions[k].total_size ELSE RZero
         IN  RAdd(v, SideSize(positions, keys \ {k}, side))

RECURSIVE SideValue(_, _, _)
\* the sum of total_size * avg_price over the positions of one side
SideValue(positions, keys, side) ==
    IF keys = {} THEN RZero
    ELSE LET k == CHOOSE x \in keys : TRUE
             v == IF positions[k].side = side
                  THEN RMul(positions[k].total_size, positions[k].avg_price)
                  ELSE RZero
         IN  RAdd(v, SideValue(positions, keys \ {k}, side))

\* PositionTracker::calculate_inventory_skew
calculate_inventory_skew(positions) ==
    LET up_value == SideValue(positions, DOMAIN positions, "Buy")
        down_value == SideValue(positions, DOMAIN positions, "Sell")
        total == RAdd(up_value, down_value)
    IN  IF total = RZero THEN RZero ELSE RDiv(RSub(up_value, down_value), total)

\* an inventory status whose skew is the plain difference of the two values
get_inventory_status_unscaled(positions) ==
    LET up_value == SideValue(positions, DOMAIN positions, "Buy")
        down_value == SideValue(positions, DOMAIN positions, "Sell")
        total == RAdd(up_value, down_value)
    IN  [up_value |-> up_value, down_value |-> down_value, total_value |-> total,
         skew |-> RSub(up_value, down_value)]

\* PositionTracker::get_inventory_status
get_inventory_status(positions) ==
    LET up_value == SideValue(positions, DOMAIN positions, "Buy")
        down_value == SideValue(positions, DOMAIN positions, "Sell")
        total == RAdd(up_value, down_value)
    IN  [up_value |-> up_value, down_value |-> down_value, total_value |-> total,
         skew |-> IF total = RZero THEN RZero ELSE RDiv(RSub(up_value, down_value), total)]

\* PositionTracker::check_merge_opportunity
check_merge_opportunity(positions, market_id, threshold) ==
    LET ups == {k \in DOMAIN positions :
                    positions[k].market_id = market_id /\ positions[k].side = "Buy"}
        downs == {k \in DOMAIN positions :
                    positions[k].market_id = market_id /\ positions[k].side = "Sell"}
    IN  IF ups # {} /\ downs # {}
        THEN LET up == positions[CHOOSE k \in ups : TRUE]
                 down == positions[CHOOSE k \in downs : TRUE]
                 merge_amount == RMin(up.total_size, down.total_size)
             IN  IF RLt(RZero, up.total_size) /\ RLt(RZero, down.total_size)
                    /\ RLe(threshold, merge_amount)
                 THEN Some(merge_amount) ELSE None
        ELSE None

\* ------------------------------------------------------------------------
\* OrderTracker (src/trading/order_tracker.rs)
\* ------------------------------------------------------------------------
\* OrderTracker::track_order
track_order(orders, token, order_id, side, price, size) ==
    MapInsert(orders, token,
              [order_id |-> order_id, token |-> token, side |-> side,
               price |-> price, size |-> size])

\* OrderTracker::clear
clear(orders, token) == <<>>

\* OrderTracker::clear_orders_for_token
clear_orders_for_token(orders, token) ==
    [k \in {x \in DOMAIN orders : orders[x].token # token} |-> orders[k]]

\* tracker.get_all_orders().values().filter(|o| o.token == token).map(|o| o.order_id)
TrackedIds(orders, token) ==
    {orders[k].order_id : k \in {x \in DOMAIN orders : orders[x].token = token}}

\* ------------------------------------------------------------------------
\* TradeExecutor queries (src/trading/executor.rs)
\* ------------------------------------------------------------------------
\* TradeExecutor::get_open_orders: the venue's orders filtered by token; when the
\* request fails after its retries the error is logged and an empty list returned
get_open_orders(venue, token_id, api_ok) ==
    IF api_ok THEN {o \in venue : o.token = token_id} ELSE {}

\* TradeExecutor::get_filled_orders
get_filled_orders(venue, token_id, tracked_order_ids, api_ok) ==
    LET open_orders == get_open_orders(venue, token_id, api_ok)
        open_ids == {o.order_id : o \in open_orders}
    IN  {id \in tracked_order_ids : id \notin open_ids}

\* TradeExecutor::is_price_in_safe_range
is_price_in_safe_range(price, safe_low, safe_high) ==
    RLe(safe_low, price) /\ RLe(price, safe_high)


\* ------------------------------------------------------------------------
\* The trading cycle: run_trading_cycle_single_market_inner (src/main.rs)
\* ------------------------------------------------------------------------
\* the order id place_order_complete returns in simulation mode ("simulated")
SimulatedId == 0

CycIdle ==
    [pc |-> "idle", status_total_value |-> RZero,
     up_price |-> None, down_price |-> None,
     tracked_orders_up |-> {}, tracked_orders_down |-> {},
     filled_order_ids_up |-> {}, filled_order_ids_down |-> {},
     attempt |-> 0, open_orders_up |-> 0,
     inventory_skew |-> RZero,
     up_bid_price |-> RZero, down_bid_price |-> RZero,
     up_size |-> RZero, down_size |-> RZero]

NoCall == [token |-> None, open_orders |-> <<>>, ret |-> "none"]
NoPoc == [token |-> None, price |-> RZero, size |-> RZero]

HistEmpty ==
    [steps |-> {},              \* the steps of the cycle that have run
     quote_missing |-> FALSE,   \* a bid or ask was absent from the cache when read
     stale_open |-> {},         \* tracked ids open at the venue when the fill query ran
     query_failed |-> {},       \* tokens whose fill-detection query failed after its retries
     cancel_failed |-> FALSE,   \* a cancel_order call of the cancel step failed after its retries
     fills |-> {},              \* the orders whose fill was applied to the positions
     placed |-> {},             \* tokens for which place_order_complete was called
     posted |-> {},             \* tokens for which the venue accepted a new order
     duplicate |-> FALSE]       \* an order was submitted on top of an open one

\* return Ok(()) from the cycle, back to the select! loop of main()
Return == /\ cyc' = CycIdle
          /\ call' = NoCall
          /\ poc' = NoPoc

RECURSIVE SortedIds(_)
\* the ids of a Vec of orders, in the order the venue lists them (oldest first)
SortedIds(ids) ==
    IF ids = {} THEN <<>>
    ELSE LET m == CHOOSE x \in ids : \A y \in ids : x <= y
         IN  <<m>> \o SortedIds(ids \ {m})

\* main(): the trading_tick arm while first_cycle is set
SkipFirstCycle ==
    /\ main.pc = "loop"
    /\ cyc.pc = "idle"
    /\ first_cycle
    /\ first_cycle' = FALSE
    /\ UNCHANGED <<execVars, order_tracker, position_tracker, orders_placed, cyc, call,
                   poc, hist, feedVars, cacheVars>>
    /\ UNCHANGED utilVars

\* a trading tick that starts a cycle without waiting for the one in progress
TradingTickDetached ==
    /\ main.pc = "loop"
    /\ ~first_cycle
    /\ orders_placed < MaxOrders
    /\ cyc' = [CycIdle EXCEPT !.pc = "check_ws"]
    /\ call' = NoCall
    /\ poc' = NoPoc
    /\ hist' = HistEmpty
    /\ UNCHANGED <<execVars, first_cycle, order_tracker, position_tracker, orders_placed,
                   feedVars, cacheVars>>
    /\ UNCHANGED utilVars

\* main(): the trading_tick arm, up to the call of the cycle
TradingTick ==
    /\ main.pc = "loop"
    /\ cyc.pc = "idle"
    /\ ~first_cycle
    /\ orders_placed < MaxOrders
    /\ cyc' = [CycIdle EXCEPT !.pc = "check_ws"]
    /\ hist' = HistEmpty
    /\ UNCHANGED <<execVars, first_cycle, order_tracker, position_tracker, orders_placed,
                   call, poc, feedVars, cacheVars>>
    /\ UNCHANGED utilVars

\* lines 557-570: skip the cycle when the feed has no prices
CheckWsPrices ==
    /\ cyc.pc = "check_ws"
    /\ LET prices == get_all_prices(last_prices, subscribed_tokens)
       IN  IF DOMAIN prices # {}
           THEN /\ cyc' = [cyc EXCEPT !.pc = "check_limit"]
                /\ UNCHANGED <<call, poc>>
           ELSE Return
    /\ hist' = [hist EXCEPT !.steps = @ \cup {"ws_check"}]
    /\ UNCHANGED <<execVars, first_cycle, order_tracker, position_tracker, orders_placed,
                   feedVars, cacheVars>>
    /\ UNCHANGED utilVars

\* lines 572-597: inventory status and the total position limit
CheckPositionLimit ==
    /\ cyc.pc = "check_limit"
    /\ LET status == get_inventory_status(position_tracker)
           should_return == RLe(max_total_position, status.total_value)
       IN  IF should_return
           THEN Return
           ELSE /\ cyc' = [cyc EXCEPT !.pc = "get_up_price",
                                      !.inventory_skew =
                                          calculate_inventory_skew(position_tracker),
                                      !.status_total_value = status.total_value]
                /\ UNCHANGED <<call, poc>>
    /\ hist' = [hist EXCEPT !.steps = @ \cup {"ceiling_check"}]
    /\ UNCHANGED <<execVars, first_cycle, order_tracker, position_tracker, orders_placed,
                   feedVars, cacheVars>>
    /\ UNCHANGED utilVars

\* .map(|(bid, ask)| (bid + ask) / 2.0)
Mid(quote) == IF quote = None THEN None
              ELSE Some(RDiv(RAdd(quote[1][1], quote[1][2]), R(2, 1)))

\* the cache holds no bid or no ask under the canonical key of the token
QuoteAbsent(token) ==
    \/ BidKey(ShortTokenId(token)) \notin DOMAIN last_prices
    \/ AskKey(ShortTokenId(token)) \notin DOMAIN last_prices

\* line 601: the UP quote
GetUpPrice ==
    /\ cyc.pc = "get_up_price"
    /\ cyc' = [cyc EXCEPT !.pc = "get_down_price",
                          !.up_price = Mid(get_price(last_prices, UpToken))]
    /\ hist' = [hist EXCEPT !.quote_missing = @ \/ QuoteAbsent(UpToken)]
    /\ UNCHANGED <<execVars, first_cycle, order_tracker, position_tracker, orders_placed,
                   call, poc, feedVars, cacheVars>>
    /\ UNCHANGED utilVars

\* lines 626-637: the absolute price bound
PriceValid(p) == ~(RLt(p, min_price) \/ RLt(max_price, p))

\* lines 602-659: the DOWN quote, the availability and range checks
GetDownPrice ==
    /\ cyc.pc = "get_down_price"
    /\ LET down == Mid(get_price(last_prices, DownToken))
       IN  IF cyc.up_price = None \/ down = None
           THEN Return
           ELSE IF ~PriceValid(cyc.up_price[1]) \/ ~PriceValid(down[1])
           THEN Return
           ELSE /\ cyc' = [cyc EXCEPT !.pc = "collect_tracked", !.down_price = down]
                /\ UNCHANGED <<call, poc>>
    /\ hist' = [hist EXCEPT !.quote_missing = @ \/ QuoteAbsent(DownToken),
                            !.steps = @ \cup {"read_quotes"}]
    /\ UNCHANGED <<execVars, first_cycle, order_tracker, position_tracker, orders_placed,
                   feedVars, cacheVars>>
    /\ UNCHANGED utilVars

\* lines 663-679: the tracked order ids of both tokens
CollectTracked ==
    /\ cyc.pc = "collect_tracked"
    /\ cyc' = [cyc EXCEPT !.pc = "fills_up",
                          !.tracked_orders_up = TrackedIds(order_tracker, UpToken),
                          !.tracked_orders_down = TrackedIds(order_tracker, DownToken)]
    /\ UNCHANGED <<execVars, first_cycle, order_tracker, position_tracker, orders_placed,
                   call, poc, hist, feedVars, cacheVars>>
    /\ UNCHANGED utilVars

\* tracked ids that are open at the venue right now
OpenAtVenue(token, ids) == {id \in ids : \E o \in venue_open : o.order_id = id /\ o.token = token}

\* lines 682-698: which tracked UP orders are no longer open
FillsUp ==
    /\ cyc.pc = "fills_up"
    /\ IF cyc.tracked_orders_up # {}
       THEN \E api_ok \in BOOLEAN :
              /\ cyc' = [cyc EXCEPT !.pc = "fills_down",
                            !.filled_order_ids_up =
                                get_filled_orders(venue_open, UpToken, cyc.tracked_orders_up, api_ok)]
              /\ hist' = [hist EXCEPT !.query_failed = IF api_ok THEN @ ELSE @ \cup {UpToken},
                            !.stale_open = @ \cup OpenAtVenue(UpToken, cyc.tracked_orders_up),
                            !.steps = @ \cup {"fill_query"}]
       ELSE /\ cyc' = [cyc EXCEPT !.pc = "fills_down"]
            /\ hist' = hist
    /\ UNCHANGED <<execVars, first_cycle, order_tracker, position_tracker, orders_placed,
                   call, poc, feedVars, cacheVars>>
    /\ UNCHANGED utilVars

\* lines 700-716: which tracked DOWN orders are no longer open
FillsDown ==
    /\ cyc.pc = "fills_down"
    /\ IF cyc.tracked_orders_down # {}
       THEN \E api_ok \in BOOLEAN :
              /\ cyc' = [cyc EXCEPT !.pc = "apply_fills",
                            !.filled_order_ids_down =
                                get_filled_orders(venue_open, DownToken, cyc.tracked_orders_down, api_ok)]
              /\ hist' = [hist EXCEPT !.query_failed = IF api_ok THEN @ ELSE @ \cup {DownToken},
                            !.stale_open = @ \cup OpenAtVenue(DownToken, cyc.tracked_orders_down),
                            !.steps = @ \cup {"fill_query"}]
       ELSE /\ cyc' = [cyc EXCEPT !.pc = "apply_fills"]
            /\ hist' = hist
    /\ UNCHANGED <<execVars, first_cycle, order_tracker, position_tracker, orders_placed,
                   call, poc, feedVars, cacheVars>>
    /\ UNCHANGED utilVars

\* if order.side == "BUY" { Side::Buy } else { Side::Sell }
SideOf(s) == IF s = "BUY" THEN "Buy" ELSE "Sell"

\* the tracked orders of a token whose id is among the filled ids
FilledOrders(orders, token, filled) ==
    {orders[k] : k \in {x \in DOMAIN orders :
                          orders[x].token = token /\ orders[x].order_id \in filled}}

RECURSIVE ApplyAll(_, _)
\* one update_position per filled order
ApplyAll(positions, filled_orders) ==
    IF filled_orders = {} THEN positions
    ELSE LET o == CHOOSE x \in filled_orders : TRUE
         IN  ApplyAll(update_position(positions, o.token, SideOf(o.side), o.size, o.price),
                      filled_orders \ {o})

\* lines 718-763: update the positions for the presumed-filled orders
ApplyFills ==
    /\ cyc.pc = "apply_fills"
    /\ LET ups == FilledOrders(order_tracker, UpToken, cyc.filled_order_ids_up)
           downs == FilledOrders(order_tracker, DownToken, cyc.filled_order_ids_down)
       IN  /\ position_tracker' = ApplyAll(ApplyAll(position_tracker, ups), downs)
           /\ hist' = [hist EXCEPT !.fills = ups \cup downs,
                                   !.steps = @ \cup {"fill_detection"}]
    /\ cyc' = [cyc EXCEPT !.pc = "cancel_up"]
    /\ UNCHANGED <<execVars, first_cycle, order_tracker, orders_placed, call, poc,
                   feedVars, cacheVars>>
    /\ UNCHANGED utilVars


\* the places that call cancel_orders_for_market, with the token they pass
\* (main.rs 766, 777, 820, 821; executor.rs 232) and where control goes next
CancelSites == {"cancel_up", "cancel_down", "retry_cancel_up", "retry_cancel_down", "poc_cancel"}
CancelToken(pc) ==
    CASE pc \in {"cancel_up", "retry_cancel_up"} -> UpToken
      [] pc \in {"cancel_down", "retry_cancel_down"} -> DownToken
      [] OTHER -> poc.token[1]
\* a cycle that looks for fills after its cancel calls
CancelRetThenFills(pc) ==
    CASE pc = "cancel_up" -> "cancel_down"
      [] pc = "cancel_down" -> "collect_tracked"
      [] pc = "retry_cancel_up" -> "retry_cancel_down"
      [] pc = "retry_cancel_down" -> "verify_up"
      [] OTHER -> "poc_post"
CancelRet(pc) ==
    CASE pc = "cancel_up" -> "cancel_down"
      [] pc = "cancel_down" -> "clear"
      [] pc = "retry_cancel_up" -> "retry_cancel_down"
      [] pc = "retry_cancel_down" -> "verify_up"
      [] OTHER -> "poc_post"

\* TradeExecutor::cancel_orders_for_market, lines 502-531: list the open orders
\* of the token; with none to cancel it returns Ok at once
CancelOrdersForMarket ==
    /\ cyc.pc \in CancelSites
    /\ \E api_ok \in BOOLEAN :
         LET token == CancelToken(cyc.pc)
             open_orders == IF simulation_mode THEN {}
                            ELSE get_open_orders(venue_open, token, api_ok)
         IN  IF open_orders = {}
             THEN /\ cyc' = [cyc EXCEPT !.pc = CancelRet(cyc.pc)]
                  /\ call' = NoCall
             ELSE /\ cyc' = [cyc EXCEPT !.pc = "cancel_loop"]
                  /\ call' = [token |-> Some(token),
                              open_orders |-> SortedIds({o.order_id : o \in open_orders}),
                              ret |-> CancelRet(cyc.pc)]
    /\ hist' = [hist EXCEPT !.steps = @ \cup {"cancel"}]
    /\ UNCHANGED <<execVars, first_cycle, order_tracker, position_tracker, orders_placed,
                   poc, feedVars, cacheVars>>
    /\ UNCHANGED utilVars

\* TradeExecutor::cancel_orders_for_market, lines 533-558: cancel_order for the
\* next listed order; a failure is logged and the loop goes on, the result is Ok
CancelNext ==
    /\ cyc.pc = "cancel_loop"
    /\ \E ok \in BOOLEAN :
         LET id == Head(call.open_orders)
         IN  /\ venue_open' = IF ok THEN {o \in venue_open : o.order_id # id} ELSE venue_open
             /\ hist' = [hist EXCEPT !.cancel_failed = @ \/ (~ok /\ call.ret # "poc_post")]
    /\ IF Tail(call.open_orders) = <<>>
       THEN /\ cyc' = [cyc EXCEPT !.pc = call.ret]
            /\ call' = NoCall
       ELSE /\ call' = [call EXCEPT !.open_orders = Tail(@)]
            /\ cyc' = cyc
    /\ UNCHANGED <<simulation_mode, next_order_id, first_cycle, order_tracker,
                   position_tracker, orders_placed, poc, feedVars, cacheVars>>
    /\ UNCHANGED utilVars

\* lines 788-793: clear the tracked orders of both tokens, then sleep 200 ms
ClearTracked ==
    /\ cyc.pc = "clear"
    /\ order_tracker' = clear_orders_for_token(clear_orders_for_token(order_tracker, UpToken),
                                               DownToken)
    /\ cyc' = [cyc EXCEPT !.pc = "verify_up", !.attempt = 1]
    /\ hist' = [hist EXCEPT !.steps = @ \cup {"clear_ledger"}]
    /\ UNCHANGED <<execVars, first_cycle, position_tracker, orders_placed, call, poc,
                   feedVars, cacheVars>>
    /\ UNCHANGED utilVars

\* lines 797-800: count the UP orders still open
VerifyUp ==
    /\ cyc.pc = "verify_up"
    /\ \E api_ok \in BOOLEAN :
         cyc' = [cyc EXCEPT !.pc = "verify_down",
                    !.open_orders_up = Cardinality(get_open_orders(venue_open, UpToken, api_ok))]
    /\ UNCHANGED <<execVars, first_cycle, order_tracker, position_tracker, orders_placed,
                   call, poc, hist, feedVars, cacheVars>>
    /\ UNCHANGED utilVars

\* lines 801-823: count the DOWN orders still open; go on when none is left,
\* stop the cycle at the third attempt, otherwise cancel again and re-check
VerifyDown ==
    /\ cyc.pc = "verify_down"
    /\ \E api_ok \in BOOLEAN :
         LET open_orders_down == Cardinality(get_open_orders(venue_open, DownToken, api_ok))
         IN  IF cyc.open_orders_up = 0 /\ open_orders_down = 0
             THEN /\ cyc' = [cyc EXCEPT !.pc = "recompute", !.open_orders_up = 0]
                  /\ UNCHANGED <<call, poc>>
             ELSE IF cyc.attempt = 3
             THEN Return
             ELSE /\ cyc' = [cyc EXCEPT !.pc = "retry_cancel_up", !.open_orders_up = 0,
                                        !.attempt = @ + 1]
                  /\ UNCHANGED <<call, poc>>
    /\ UNCHANGED <<execVars, first_cycle, order_tracker, position_tracker, orders_placed,
                   hist, feedVars, cacheVars>>
    /\ UNCHANGED utilVars

\* lines 842 and 850
skip_buy_up(skew) == RLt(max_skew_threshold, skew)
skip_buy_down(skew) == RLt(skew, RSub(RZero, max_skew_threshold))

\* the safe ranges a configuration can set: the defaults, and a narrower range
\* from SAFE_RANGE_LOW / SAFE_RANGE_HIGH that leaves the feed's quotes outside
SafeRanges ==
    {[low |-> safe_range_low, high |-> safe_range_high],
     [low |-> R(10, 100), high |-> R(65, 100)],
     [low |-> R(75, 100), high |-> R(90, 100)]}

\* a bid price that is rounded but not clamped
UnclampedBid(price, inventory_skew, low, high) ==
    LET skew_adjustment == RMul(inventory_skew, R(1, 100))
    IN  RoundCents(RAdd(RSub(price, RDiv(spread, R(2, 1))), skew_adjustment))

\* lines 893-898: mid - spread / 2 + skew * 0.01, rounded to cents, then
\* .max(safe_range_low).min(safe_range_high)
ClampedBid(price, inventory_skew, low, high) ==
    LET skew_adjustment == RMul(inventory_skew, R(1, 100))
        bid == RoundCents(RAdd(RSub(price, RDiv(spread, R(2, 1))), skew_adjustment))
    IN  RMin(RMax(bid, low), high)

\* lines 897-898 and 903-904: the bid price of an order, rounded to cents and
\* clamped to the safe range
BidPrice(price, inventory_skew) ==
    ClampedBid(price, inventory_skew, safe_range_low, safe_range_high)

\* the order prices derived from the skew read at line 575, without line 826
RecomputeSkewStale ==
    /\ cyc.pc = "recompute"
    /\ LET inventory_skew == cyc.inventory_skew
       IN  cyc' = [cyc EXCEPT !.pc = "balance",
                      !.up_bid_price = BidPrice(cyc.up_price[1], inventory_skew),
                      !.down_bid_price = BidPrice(cyc.down_price[1], inventory_skew)]
    /\ hist' = [hist EXCEPT !.steps = @ \cup {"recompute_skew"}]
    /\ UNCHANGED <<execVars, first_cycle, order_tracker, position_tracker, orders_placed,
                   call, poc, feedVars, cacheVars>>
    /\ UNCHANGED utilVars

\* lines 825-909: recompute the skew after the fills, derive the order prices
RecomputeSkew ==
    /\ cyc.pc = "recompute"
    /\ LET inventory_skew == calculate_inventory_skew(position_tracker)
       IN  cyc' = [cyc EXCEPT !.pc = "balance",
                      !.inventory_skew = inventory_skew,
                      !.up_bid_price = BidPrice(cyc.up_price[1], inventory_skew),
                      !.down_bid_price = BidPrice(cyc.down_price[1], inventory_skew)]
    /\ hist' = [hist EXCEPT !.steps = @ \cup {"recompute_skew"}]
    /\ UNCHANGED <<execVars, first_cycle, order_tracker, position_tracker, orders_placed,
                   call, poc, feedVars, cacheVars>>
    /\ UNCHANGED utilVars

\* the answers of the balance endpoint: no answer after the retries or a body
\* that is not JSON, a body whose "USDC" field is a string holding a number, or
\* a JSON body without such a field
BalanceResponses ==
    {[kind |-> "error", USDC |-> RZero], [kind |-> "no_usdc_field", USDC |-> RZero]}
    \cup {[kind |-> "balance", USDC |-> b] : b \in BalanceValues}
\* TradeExecutor::get_usdc_balance on one answer; without a usable "USDC" field
\* the balance is taken to be 10000.0 (lines 155-161)
get_usdc_balance(response) ==
    IF response.kind = "error" THEN None
    ELSE IF response.kind = "balance" THEN Some(response.USDC)
    ELSE Some(R(10000, 1))
\* the outcomes of get_usdc_balance: Ok(balance), or None for Err
BalanceOutcomes == {get_usdc_balance(response) : response \in BalanceResponses}
\* .unwrap_or(0.0)
UnwrapOrZero(outcome) == IF outcome = None THEN RZero ELSE outcome[1]

\* the sizes with the balanced branch capped by the whole remaining room
SizesWholeRoom(inventory_skew, status_total_value) ==
    LET base_size == order_size
        remaining == RSub(max_total_position, status_total_value)
    IN  IF RLt(max_skew_threshold, inventory_skew)
        THEN <<RZero, RMin(base_size, remaining)>>
        ELSE IF RLt(inventory_skew, RSub(RZero, max_skew_threshold))
        THEN <<RMin(base_size, remaining), RZero>>
        ELSE <<RMin(base_size, remaining), RMin(base_size, remaining)>>

\* lines 947-958: the sizes of the two orders
Sizes(inventory_skew, status_total_value) ==
    LET base_size == order_size
        remaining == RSub(max_total_position, status_total_value)
        half == RDiv(remaining, R(2, 1))
    IN  IF RLt(max_skew_threshold, inventory_skew)
        THEN <<RZero, RMin(base_size, remaining)>>
        ELSE IF RLt(inventory_skew, RSub(RZero, max_skew_threshold))
        THEN <<RMin(base_size, remaining), RZero>>
        ELSE <<RMin(base_size, half), RMin(base_size, half)>>

\* lines 911-965: the balance check with buffer, then the sizes
BalanceCheckOn(response) ==
    /\ cyc.pc = "balance"
    /\   LET outcome == get_usdc_balance(response)
             up_need == RMul(cyc.up_price[1], order_size)
             down_need == RMul(cyc.down_price[1], order_size)
             actual_up_need == IF RLt(max_skew_threshold, cyc.inventory_skew)
                               THEN RZero ELSE up_need
             actual_down_need ==
                IF RLt(max_skew_threshold, cyc.inventory_skew) THEN down_need
                ELSE IF RLt(cyc.inventory_skew, RSub(RZero, max_skew_threshold))
                THEN RZero ELSE down_need
             total_need == RMul(RAdd(actual_up_need, actual_down_need), BUFFER_RATIO)
             balance == UnwrapOrZero(outcome)
             sizes == Sizes(cyc.inventory_skew, cyc.status_total_value)
         IN  IF RLt(balance, total_need)
             THEN /\ Return
                  /\ hist' = [hist EXCEPT !.steps = @ \cup {"balance_check"}]
             ELSE IF sizes[1] = RZero /\ sizes[2] = RZero
             THEN /\ Return
                  /\ hist' = [hist EXCEPT !.steps = @ \cup {"balance_check", "decide_sizes"}]
             ELSE /\ cyc' = [cyc EXCEPT !.pc = "place_up",
                                        !.up_size = sizes[1], !.down_size = sizes[2]]
                  /\ hist' = [hist EXCEPT !.steps = @ \cup {"balance_check", "decide_sizes"}]
                  /\ UNCHANGED <<call, poc>>
    /\ UNCHANGED <<execVars, first_cycle, order_tracker, position_tracker, orders_placed,
                   feedVars, cacheVars>>
    /\ UNCHANGED utilVars

BalanceCheck == \E response \in BalanceResponses : BalanceCheckOn(response)


\* the step after place_order_complete returned to the cycle
AfterPoc(token) == IF token = UpToken THEN "down_balance" ELSE "done"

\* a failed placement that ends the placing of the cycle
PocFailedEndsCycle ==
    /\ cyc' = [cyc EXCEPT !.pc = "done"]
    /\ poc' = NoPoc
    /\ UNCHANGED <<order_tracker, orders_placed>>

\* a failed placement that records the order it asked for
PocFailedTracks ==
    /\ cyc' = [cyc EXCEPT !.pc = AfterPoc(poc.token[1])]
    /\ order_tracker' = track_order(order_tracker, poc.token[1], 0, "BUY", poc.price, poc.size)
    /\ poc' = NoPoc
    /\ UNCHANGED orders_placed

\* place_order_complete returned Ok(None) or Err: the cycle logs it and goes on
PocFailed ==
    /\ cyc' = [cyc EXCEPT !.pc = AfterPoc(poc.token[1])]
    /\ poc' = NoPoc
    /\ UNCHANGED <<order_tracker, orders_placed>>

\* place_order_complete returned Ok(Some(order_id)): lines 981-987 and 1016-1022
PocPlaced(order_id) ==
    /\ orders_placed' = orders_placed + 1
    /\ order_tracker' = track_order(order_tracker, poc.token[1], order_id, "BUY",
                                    poc.price, poc.size)
    /\ cyc' = [cyc EXCEPT !.pc = AfterPoc(poc.token[1])]
    /\ poc' = NoPoc

\* lines 967-995: place the UP buy order
PlaceUp ==
    /\ cyc.pc = "place_up"
    /\ IF RLt(RZero, cyc.up_size) /\ ~skip_buy_up(cyc.inventory_skew)
       THEN /\ cyc' = [cyc EXCEPT !.pc = "poc_start"]
            /\ poc' = [token |-> Some(UpToken), price |-> cyc.up_bid_price,
                       size |-> cyc.up_size]
            /\ hist' = [hist EXCEPT !.placed = @ \cup {UpToken},
                                    !.steps = @ \cup {"place_orders"}]
       ELSE /\ cyc' = [cyc EXCEPT !.pc = "down_balance"]
            /\ UNCHANGED <<poc, hist>>
    /\ UNCHANGED <<execVars, first_cycle, order_tracker, position_tracker, orders_placed,
                   call, feedVars, cacheVars>>
    /\ UNCHANGED utilVars

\* lines 997-1031: re-check the balance, then place the DOWN buy order
PlaceDownOn(outcome) ==
    /\ cyc.pc = "down_balance"
    /\ IF RLt(RZero, cyc.down_size) /\ ~skip_buy_down(cyc.inventory_skew)
       THEN   LET balance_after_up == UnwrapOrZero(outcome)
                  down_need_now == RMul(RMul(cyc.down_bid_price, cyc.down_size), BUFFER_RATIO)
              IN  IF RLt(balance_after_up, down_need_now)
                  THEN /\ cyc' = [cyc EXCEPT !.pc = "done"]
                       /\ UNCHANGED <<poc, hist>>
                  ELSE /\ cyc' = [cyc EXCEPT !.pc = "poc_start"]
                       /\ poc' = [token |-> Some(DownToken), price |-> cyc.down_bid_price,
                                  size |-> cyc.down_size]
                       /\ hist' = [hist EXCEPT !.placed = @ \cup {DownToken},
                                               !.steps = @ \cup {"place_orders"}]
       ELSE /\ cyc' = [cyc EXCEPT !.pc = "done"]
            /\ UNCHANGED <<poc, hist>>
    /\ UNCHANGED <<execVars, first_cycle, order_tracker, position_tracker, orders_placed,
                   call, feedVars, cacheVars>>
    /\ UNCHANGED utilVars

PlaceDown == \E outcome \in BalanceOutcomes : PlaceDownOn(outcome)

\* place_order_complete, lines 197-220: simulation mode, price check, balance check
PocStart ==
    /\ cyc.pc = "poc_start"
    /\ IF simulation_mode
       THEN PocPlaced(SimulatedId)
       ELSE IF ~is_price_in_safe_range(poc.price, safe_range_low, safe_range_high)
       THEN PocFailed
       ELSE \E outcome \in BalanceOutcomes :
              IF outcome = None
              THEN PocFailed
              ELSE IF RLt(outcome[1], RMul(poc.size, poc.price))
              THEN PocFailed
              ELSE /\ cyc' = [cyc EXCEPT !.pc = "poc_query"]
                   /\ UNCHANGED <<poc, order_tracker, orders_placed>>
    /\ UNCHANGED <<execVars, first_cycle, position_tracker, call, hist, feedVars, cacheVars>>
    /\ UNCHANGED utilVars

\* place_order_complete, lines 222-243: look for existing orders of the token
\* and cancel them when there are any
PocQuery ==
    /\ cyc.pc = "poc_query"
    /\ \E api_ok \in BOOLEAN :
         LET open_orders == get_open_orders(venue_open, poc.token[1], api_ok)
         IN  cyc' = [cyc EXCEPT !.pc = IF open_orders # {} THEN "poc_cancel" ELSE "poc_post"]
    /\ UNCHANGED <<execVars, first_cycle, order_tracker, position_tracker, orders_placed,
                   call, poc, hist, feedVars, cacheVars>>
    /\ UNCHANGED utilVars

\* the outcomes of place_limit_order: an error after the retries, a response with
\* a valid order id and a live status, or a response that fails the id/status checks
PostOutcomes == {"err", "live", "rejected"}

\* place_order_complete, lines 245-291: wait for the rate limiter, post the order
PocPost ==
    /\ cyc.pc = "poc_post"
    /\ \E res \in PostOutcomes :
         IF res = "live"
         THEN /\ venue_open' = venue_open \cup
                     {[order_id |-> next_order_id, token |-> poc.token[1], side |-> "BUY",
                       price |-> poc.price, size |-> poc.size]}
              /\ next_order_id' = next_order_id + 1
              /\ hist' = [hist EXCEPT !.posted = @ \cup {poc.token[1]},
                                      !.duplicate =
                                          @ \/ (\E o \in venue_open : o.token = poc.token[1])]
              /\ PocPlaced(next_order_id)
         ELSE /\ PocFailed
              /\ UNCHANGED <<venue_open, next_order_id, hist>>
    /\ UNCHANGED <<simulation_mode, first_cycle, position_tracker, call, feedVars, cacheVars>>
    /\ UNCHANGED utilVars

\* lines 1033-1035: the cycle completed
CycleCompleted ==
    /\ cyc.pc = "done"
    /\ Return
    /\ UNCHANGED <<execVars, first_cycle, order_tracker, position_tracker, orders_placed,
                   hist, feedVars, cacheVars>>
    /\ UNCHANGED utilVars

\* the venue matches an open order: it leaves the open orders
VenueFill ==
    /\ \E o \in venue_open : venue_open' = venue_open \ {o}
    /\ UNCHANGED <<simulation_mode, next_order_id, cycleVars, feedVars, cacheVars>>
    /\ UNCHANGED utilVars


\* ------------------------------------------------------------------------
\* The streaming feed: PolymarketWebSocket (src/websocket/mod.rs)
\* ------------------------------------------------------------------------
\* snapshots handled by process_orderbook_snapshot before msg_counter stops the model
MaxSnapshots == 1

UsIdle == [pc |-> "idle", arg |-> <<>>, cleared |-> FALSE, last_call |-> "none"]

\* a task spawned on connect_market; old: it was spawned before the latest
\* update_subscription call, saw_stop: it has read running = false during that call,
\* read_error: a read of its current connection has returned an error
NewTask == [pc |-> "check_running", old |-> FALSE, saw_stop |-> FALSE, read_error |-> FALSE]

\* update_subscription is between its first and its last statement
InUpdate == us.pc \in {"us_tokens", "us_clear", "us_running", "us_spawn"}

Tasks == 1..Len(tasks)

\* prices.insert(key, price) for each entry
CacheInsert(entries) ==
    /\ last_prices' = [k \in DOMAIN last_prices \cup DOMAIN entries |->
                          IF k \in DOMAIN entries THEN entries[k] ELSE last_prices[k]]
    /\ written' = written \cup DOMAIN entries

\* try_connect, lines 446-450: after each turn of the read loop the task reads
\* `running`; when it is false it closes the socket and returns Ok(())
AfterTurn(i) ==
    tasks' = IF running THEN tasks
             ELSE [tasks EXCEPT ![i].pc = "reconnect_sleep", ![i].saw_stop = InUpdate,
                                ![i].read_error = FALSE]

\* process_book_event: the best bid and ask of a book event go into the cache
\* under the first 20 characters of its asset id
process_book_event(asset_id, bids, asks) ==
    LET short_token_id == ShortTokenId(asset_id)
        bid == IF bids # <<>> THEN (BidKey(short_token_id) :> bids[1]) ELSE <<>>
        ask == IF asks # <<>> THEN (AskKey(short_token_id) :> asks[1]) ELSE <<>>
    IN  [k \in DOMAIN bid \cup DOMAIN ask |-> IF k \in DOMAIN bid THEN bid[k] ELSE ask[k]]

\* a connection task that connects whatever `running` says
TaskCheckRunningIgnored(i) ==
    /\ tasks[i].pc = "check_running"
    /\ tasks' = [tasks EXCEPT ![i].pc = "connecting"]
    /\ UNCHANGED <<execVars, cycleVars, running, subscribed_tokens, msg_counter, us, cacheVars>>
    /\ UNCHANGED utilVars

\* connect_market, lines 334-338: the task reads `running` at the top of its loop
TaskCheckRunning(i) ==
    /\ tasks[i].pc = "check_running"
    /\ tasks' = IF running THEN [tasks EXCEPT ![i].pc = "connecting"]
                ELSE [tasks EXCEPT ![i].pc = "exited", ![i].old = TRUE,
                                    ![i].saw_stop = InUpdate]
    /\ UNCHANGED <<execVars, cycleVars, running, subscribed_tokens, msg_counter, us, cacheVars>>
    /\ UNCHANGED utilVars

\* try_connect, lines 376-394: connect (or time out, or fail) and subscribe
TaskConnect(i) ==
    /\ tasks[i].pc = "connecting"
    /\ \E ok \in BOOLEAN :
         tasks' = [tasks EXCEPT ![i].pc = IF ok THEN "reading" ELSE "reconnect_sleep"]
    /\ UNCHANGED <<execVars, cycleVars, running, subscribed_tokens, msg_counter, us, cacheVars>>
    /\ UNCHANGED utilVars

\* a connection task that returns after one failure
TaskGiveUp(i) ==
    /\ tasks[i].pc = "reconnect_sleep"
    /\ tasks' = [tasks EXCEPT ![i].pc = "exited", ![i].old = TRUE, ![i].saw_stop = InUpdate]
    /\ UNCHANGED <<execVars, cycleVars, running, subscribed_tokens, msg_counter, us, cacheVars>>
    /\ UNCHANGED utilVars

\* connect_market, line 360: the reconnect delay is over
TaskWake(i) ==
    /\ tasks[i].pc = "reconnect_sleep"
    /\ tasks' = [tasks EXCEPT ![i].pc = "check_running"]
    /\ UNCHANGED <<execVars, cycleVars, running, subscribed_tokens, msg_counter, us, cacheVars>>
    /\ UNCHANGED utilVars

\* process_message, lines 467-481: a text message that parses as a BookEvent
FeedRecvBook(i, asset_id, event_type, bids, asks) ==
    /\ tasks[i].pc = "reading"
    /\ CacheInsert(IF event_type = "book" THEN process_book_event(asset_id, bids, asks)
                      ELSE <<>>)
    /\ AfterTurn(i)
    /\ UNCHANGED <<execVars, cycleVars, running, subscribed_tokens, msg_counter, us>>
    /\ UNCHANGED utilVars

\* process_message, lines 508-526: a price_changes event sets both the bid and
\* the ask of each listed asset to the reported price
FeedRecvPriceChanges(i, asset_id, price) ==
    /\ tasks[i].pc = "reading"
    /\ LET short_token_id == ShortTokenId(asset_id)
       IN  CacheInsert((BidKey(short_token_id) :> price) @@ (AskKey(short_token_id) :> price))
    /\ AfterTurn(i)
    /\ UNCHANGED <<execVars, cycleVars, running, subscribed_tokens, msg_counter, us>>
    /\ UNCHANGED utilVars

\* the largest / smallest of a non-empty sequence of prices
MaxOf(ps) == CHOOSE x \in SeqRange(ps) : \A y \in SeqRange(ps) : RLe(y, x)
MinOf(ps) == CHOOSE x \in SeqRange(ps) : \A y \in SeqRange(ps) : RLe(x, y)

\* process_message, lines 488-501, and process_orderbook_snapshot: a list of
\* entries is credited to the subscribed token whose turn it is and stored
\* under that token's full identifier
FeedRecvSnapshot(i, entry_prices) ==
    /\ tasks[i].pc = "reading"
    /\ msg_counter < MaxSnapshots
    /\ IF subscribed_tokens = <<>>
       THEN /\ CacheInsert(<<>>)
            /\ msg_counter' = msg_counter
       ELSE LET token_idx == msg_counter % Len(subscribed_tokens)
                token_id == subscribed_tokens[token_idx + 1]
            IN  /\ msg_counter' = msg_counter + 1
                /\ CacheInsert(IF Len(entry_prices) >= 2
                                  THEN (BidKey(token_id) :> MaxOf(entry_prices))
                                       @@ (AskKey(token_id) :> MinOf(entry_prices))
                                  ELSE <<>>)
    /\ AfterTurn(i)
    /\ UNCHANGED <<execVars, cycleVars, running, subscribed_tokens, us>>
    /\ UNCHANGED utilVars

\* process_message, line 464 and lines 532-535: a text message that parses as
\* none of the event formats is logged and dropped. Before any parsing the
\* first 200 bytes of the text are cut out for the log (&text[..len.min(200)]);
\* the cut panics when byte 200 lies inside a multi-byte character, and the
\* panic ends the task on the spot, its socket with it: like a task that has
\* returned from connect_market it takes no further step.
FeedRecvUnrecognized(i, on_char_boundary) ==
    /\ tasks[i].pc = "reading"
    /\ IF on_char_boundary
       THEN AfterTurn(i)
       ELSE tasks' = [tasks EXCEPT ![i].pc = "exited", ![i].old = TRUE,
                                   ![i].saw_stop = InUpdate, ![i].read_error = FALSE]
    /\ UNCHANGED <<execVars, cycleVars, running, subscribed_tokens, msg_counter, us, cacheVars>>
    /\ UNCHANGED utilVars

\* try_connect, lines 420-422 and 434-443: a ping from the peer, a read
\* timeout or the ping interval make the task send a pong or a ping; when the
\* send fails try_connect returns the error
FeedPing(i) ==
    /\ tasks[i].pc = "reading"
    /\ \E sent \in BOOLEAN :
         IF sent THEN AfterTurn(i)
         ELSE tasks' = [tasks EXCEPT ![i].pc = "reconnect_sleep", ![i].read_error = FALSE]
    /\ UNCHANGED <<execVars, cycleVars, running, subscribed_tokens, msg_counter, us, cacheVars>>
    /\ UNCHANGED utilVars

\* try_connect, lines 423-426 and 430-433: the peer closed or the stream ended
FeedClosed(i) ==
    /\ tasks[i].pc = "reading"
    /\ tasks' = [tasks EXCEPT ![i].pc = "reconnect_sleep", ![i].read_error = FALSE]
    /\ UNCHANGED <<execVars, cycleVars, running, subscribed_tokens, msg_counter, us, cacheVars>>
    /\ UNCHANGED utilVars

\* try_connect, lines 427-429: a read error is logged and the loop goes on to
\* the check of `running` of lines 446-450
FeedReadError(i) ==
    /\ tasks[i].pc = "reading"
    /\ IF running THEN tasks' = [tasks EXCEPT ![i].read_error = TRUE] ELSE AfterTurn(i)
    /\ UNCHANGED <<execVars, cycleVars, running, subscribed_tokens, msg_counter, us, cacheVars>>
    /\ UNCHANGED utilVars


\* ---- the owner's calls: start, update_subscription, stop ----
TokenLists == {<<UpToken, DownToken>>, <<OldToken>>}

\* start, lines 119-127: running = true, then the token list is replaced
Start(token_ids) ==
    /\ us.pc = "idle"
    /\ Len(tasks) < MaxTasks
    /\ running' = TRUE
    /\ subscribed_tokens' = token_ids
    /\ us' = [us EXCEPT !.pc = "start_spawn", !.arg = token_ids]
    /\ UNCHANGED <<execVars, cycleVars, msg_counter, tasks, cacheVars>>
    /\ UNCHANGED utilVars

\* start, lines 130-149: a connection task is spawned on every call
StartSpawn ==
    /\ us.pc = "start_spawn"
    /\ tasks' = Append(tasks, NewTask)
    /\ us' = [us EXCEPT !.pc = "idle", !.last_call = "start"]
    /\ UNCHANGED <<execVars, cycleVars, running, subscribed_tokens, msg_counter, cacheVars>>
    /\ UNCHANGED utilVars

\* stop, lines 155-159
Stop ==
    /\ us.pc = "idle"
    /\ running
    /\ running' = FALSE
    /\ UNCHANGED <<execVars, cycleVars, subscribed_tokens, msg_counter, tasks, us, cacheVars>>
    /\ UNCHANGED utilVars

\* update_subscription, lines 219-226: running = false, then a one-second sleep
UpdateSubscriptionStop(token_ids) ==
    /\ us.pc = "idle"
    /\ Len(tasks) < MaxTasks
    /\ running' = FALSE
    /\ tasks' = [j \in Tasks |-> [tasks[j] EXCEPT !.old = TRUE,
                                                   !.saw_stop = (tasks[j].pc = "exited")]]
    /\ us' = [us EXCEPT !.pc = "us_tokens", !.arg = token_ids, !.cleared = FALSE]
    /\ written' = {}
    /\ UNCHANGED <<execVars, cycleVars, subscribed_tokens, msg_counter, last_prices>>
    /\ UNCHANGED utilVars

\* update_subscription, lines 229-232: the sleep is over, the token list is replaced
UpdateSubscriptionTokens ==
    /\ us.pc = "us_tokens"
    /\ subscribed_tokens' = us.arg
    /\ us' = [us EXCEPT !.pc = "us_clear"]
    /\ UNCHANGED <<execVars, cycleVars, running, msg_counter, tasks, cacheVars>>
    /\ UNCHANGED utilVars

\* an update_subscription that leaves the cache as it is
UpdateSubscriptionNoClear ==
    /\ us.pc = "us_clear"
    /\ us' = [us EXCEPT !.pc = "us_running", !.cleared = TRUE]
    /\ UNCHANGED <<execVars, cycleVars, running, subscribed_tokens, msg_counter, tasks,
                   cacheVars>>
    /\ UNCHANGED utilVars

\* update_subscription, lines 235-238: prices.clear()
UpdateSubscriptionClear ==
    /\ us.pc = "us_clear"
    /\ last_prices' = <<>>
    /\ written' = {}
    /\ us' = [us EXCEPT !.pc = "us_running", !.cleared = TRUE]
    /\ UNCHANGED <<execVars, cycleVars, running, subscribed_tokens, msg_counter, tasks>>
    /\ UNCHANGED utilVars

\* update_subscription, lines 241-244: running = true
UpdateSubscriptionRunning ==
    /\ us.pc = "us_running"
    /\ running' = TRUE
    /\ us' = [us EXCEPT !.pc = "us_spawn"]
    /\ UNCHANGED <<execVars, cycleVars, subscribed_tokens, msg_counter, tasks, cacheVars>>
    /\ UNCHANGED utilVars

\* update_subscription, lines 247-266: the new connection task is spawned
UpdateSubscriptionSpawn ==
    /\ us.pc = "us_spawn"
    /\ tasks' = Append([j \in Tasks |-> [tasks[j] EXCEPT !.saw_stop = FALSE]], NewTask)
    /\ us' = [us EXCEPT !.pc = "idle", !.last_call = "update_subscription"]
    /\ UNCHANGED <<execVars, cycleVars, running, subscribed_tokens, msg_counter, cacheVars>>
    /\ UNCHANGED utilVars

\* ------------------------------------------------------------------------
\* Specifications
\* ------------------------------------------------------------------------
FeedPrices == {FeedBid}
BidSides == {<<>>, <<FeedBid>>}
AskSides == {<<>>, <<FeedAsk>>}
SnapshotEntries == {<<FeedBid>>, <<FeedBid, R(30, 100)>>}

\* PolymarketWebSocket::new(), TradeExecutor, trackers after construction
InitFeed ==
    /\ simulation_mode = FALSE
    /\ venue_open = {}
    /\ next_order_id = 1
    /\ first_cycle = TRUE
    /\ order_tracker = <<>>
    /\ position_tracker = <<>>
    /\ orders_placed = 0
    /\ cyc = CycIdle
    /\ call = NoCall
    /\ poc = NoPoc
    /\ hist = HistEmpty
    /\ running = FALSE
    /\ subscribed_tokens = <<>>
    /\ last_prices = <<>>
    /\ msg_counter = 0
    /\ tasks = <<>>
    /\ us = UsIdle
    /\ written = {}
    /\ UtilInit

\* the main loop at its first trading tick: the feed runs for the market's two
\* instruments with one connection task reading
Init ==
    /\ simulation_mode \in BOOLEAN
    /\ venue_open = {}
    /\ next_order_id = 1
    /\ first_cycle = TRUE
    /\ order_tracker = <<>>
    /\ position_tracker = <<>>
    /\ orders_placed = 0
    /\ cyc = CycIdle
    /\ call = NoCall
    /\ poc = NoPoc
    /\ hist = HistEmpty
    /\ running = TRUE
    /\ subscribed_tokens = <<UpToken, DownToken>>
    /\ last_prices = <<>>
    /\ msg_counter = 0
    /\ tasks = <<[NewTask EXCEPT !.pc = "reading"]>>
    /\ us = UsIdle
    /\ written = {}
    /\ UtilInit

Next ==
    \/ SkipFirstCycle
    \/ TradingTick
    \/ CheckWsPrices
    \/ CheckPositionLimit
    \/ GetUpPrice
    \/ GetDownPrice
    \/ CollectTracked
    \/ FillsUp
    \/ FillsDown
    \/ ApplyFills
    \/ CancelOrdersForMarket
    \/ CancelNext
    \/ ClearTracked
    \/ VerifyUp
    \/ VerifyDown
    \/ RecomputeSkew
    \/ BalanceCheck
    \/ PlaceUp
    \/ PlaceDown
    \/ PocStart
    \/ PocQuery
    \/ PocPost
    \/ CycleCompleted
    \/ VenueFill
    \/ \E asset_id \in MarketTokens, bids \in BidSides, asks \in AskSides :
         FeedRecvBook(1, asset_id, "book", bids, asks)

Spec == Init /\ [][Next]_vars

NextFeed ==
    \/ \E token_ids \in TokenLists : Start(token_ids)
    \/ StartSpawn
    \/ Stop
    \/ \E token_ids \in TokenLists : UpdateSubscriptionStop(token_ids)
    \/ UpdateSubscriptionTokens
    \/ UpdateSubscriptionClear
    \/ UpdateSubscriptionRunning
    \/ UpdateSubscriptionSpawn
    \/ \E i \in Tasks :
         \/ TaskCheckRunning(i)
         \/ TaskConnect(i)
         \/ TaskWake(i)
         \/ \E asset_id \in {UpToken, OldToken}, bids \in BidSides, asks \in AskSides :
              FeedRecvBook(i, asset_id, "book", bids, asks)
         \/ FeedRecvBook(i, UpToken, "last_trade_price", <<FeedBid>>, <<FeedAsk>>)
         \/ \E asset_id \in {UpToken}, price \in FeedPrices :
              FeedRecvPriceChanges(i, asset_id, price)
         \/ \E entry_prices \in SnapshotEntries : FeedRecvSnapshot(i, entry_prices)
         \/ \E on_char_boundary \in BOOLEAN : FeedRecvUnrecognized(i, on_char_boundary)
         \/ FeedPing(i)
         \/ FeedClosed(i)
         \/ FeedReadError(i)

SpecFeed == InitFeed /\ [][NextFeed]_vars


\* ------------------------------------------------------------------------
\* Properties
\* ------------------------------------------------------------------------
\* the total notional value of the positions
TotalValue == get_inventory_status(position_tracker).total_value

\* C1: in every cycle the fill-detection queries and every position update for
\* a presumed fill come before the first cancel call; no cancel is issued
\* before fill detection has completed.
FillsBeforeCancel ==
    /\ [](cyc.pc \in {"fills_up", "fills_down", "apply_fills"} => "cancel" \notin hist.steps)
    /\ []("cancel" \in hist.steps => "fill_detection" \in hist.steps)
    /\ [][position_tracker' # position_tracker => "cancel" \notin hist.steps]_vars

\* C1 witness: a presumed fill was applied to the positions and the cancel step
\* ran after it in the same cycle.
FillThenCancelSeen ==
    /\ hist.fills # {}
    /\ "fill_query" \in hist.steps
    /\ "cancel" \in hist.steps

\* connection task i inserts an entry into the cache
WritesCache(i) ==
    \/ \E asset_id \in AssetIds, bids \in BidSides, asks \in AskSides :
         /\ bids # <<>> \/ asks # <<>>
         /\ FeedRecvBook(i, asset_id, "book", bids, asks)
    \/ \E asset_id \in AssetIds, price \in FeedPrices :
         FeedRecvPriceChanges(i, asset_id, price)
    \/ \E entry_prices \in SnapshotEntries :
         /\ Len(entry_prices) >= 2 /\ subscribed_tokens # <<>>
         /\ FeedRecvSnapshot(i, entry_prices)

\* C2: when update_subscription spawns its new task every earlier task has
\* observed the stop signal, and no earlier task writes the cache after the clear.
OldTasksStoppedBeforeSpawn ==
    /\ [][UpdateSubscriptionSpawn => \A j \in Tasks : tasks[j].saw_stop]_vars
    /\ [][\A i \in Tasks : (us.cleared /\ tasks[i].old) => ~WritesCache(i)]_vars

\* update_subscription has returned and no start/update_subscription began since
AfterUpdateSubscription == us.pc = "idle" /\ us.last_call = "update_subscription"

\* C3: from the return of update_subscription(S) until the next start or
\* update_subscription, get_all_prices returns quotes only for instruments of S
\* and only values written after the call began.
FreshQuotesOnly ==
    AfterUpdateSubscription =>
        LET result == get_all_prices(last_prices, subscribed_tokens)
        IN  /\ DOMAIN result \subseteq SeqRange(us.arg)
            /\ \A t \in DOMAIN result :
                 /\ BidKey(ShortTokenId(t)) \in written
                 /\ AskKey(ShortTokenId(t)) \in written

\* C3 witness: after update_subscription returned, an earlier task is still
\* reading messages, the cache holds an entry of an instrument outside S
\* (written after the clear), and get_all_prices returns a quote.
StaleTaskQuotesSeen ==
    /\ AfterUpdateSubscription
    /\ \E i \in Tasks : tasks[i].old /\ tasks[i].pc = "reading"
    /\ DOMAIN get_all_prices(last_prices, subscribed_tokens) # {}
    /\ \E t \in AssetIds \ SeqRange(us.arg) : BidKey(ShortTokenId(t)) \in DOMAIN last_prices

\* C4: at most one order per instrument is open at the venue, whatever the
\* outcomes of the queries and cancels.
OneLiveOrderPerToken ==
    \A token \in MarketTokens : Cardinality({o \in venue_open : o.token = token}) <= 1

\* C5: a cycle in which a cancel call of the cancel step failed posts no order.
CancelFailureAbortsCycle == hist.cancel_failed => hist.posted = {}

\* C6: a cycle whose positions, after its presumed fills, are worth at least
\* max_total_position posts no order.
CeilingAfterFills ==
    ("fill_detection" \in hist.steps /\ RLe(max_total_position, TotalValue))
        => hist.posted = {}

\* the steps of a cycle in the documented order
StepOrder == <<"fill_detection", "cancel", "clear_ledger", "recompute_skew",
               "ceiling_check", "read_quotes", "decide_sizes", "balance_check",
               "place_orders">>

\* C7: the steps of a cycle run in the documented order: a step has run only
\* when every step before it has.
StepsInOrder ==
    \A j \in 1..Len(StepOrder) : \A i \in 1..(j - 1) :
        StepOrder[j] \in hist.steps => StepOrder[i] \in hist.steps

\* C8: a cycle that found no bid or no ask for one of the two instruments when
\* it read the quotes calls no placement and posts no order.
NoPlacementWithoutQuotes == hist.quote_missing => (hist.placed = {} /\ hist.posted = {})

\* C8 witness: a cycle passed the feed check, found a quote missing and ended.
QuoteMissingCycleSeen ==
    /\ hist.quote_missing
    /\ "read_quotes" \in hist.steps
    /\ DOMAIN last_prices # {}
    /\ cyc.pc = "idle"

\* C9: when the fill-detection query of a token fails, no order of that token
\* is presumed filled and the cycle posts no order.
FailedFillQuerySurfaced ==
    /\ \A o \in hist.fills : o.token \notin hist.query_failed
    /\ hist.query_failed # {} => hist.posted = {}

\* C10: no tracked order that was open at the venue when the fill query ran is
\* classified as filled.
OpenOrdersNotFilled == \A o \in hist.fills : o.order_id \notin hist.stale_open


\* ------------------------------------------------------------------------
\* The position book on its own (src/trading/position.rs)
\* ------------------------------------------------------------------------
\* PositionTracker calls made in SpecBook
MaxBookOps == 3

\* the sizes and prices of the fills applied in SpecBook
BookSizes == {R(5, 1), R(3, 1)}
BookPrices == {R(1, 2), R(3, 5)}
BookSides == {"Buy", "Sell"}

\* PositionTracker::clear_position
clear_position(positions, market_id) ==
    [k \in DOMAIN positions \ {market_id} |-> positions[k]]

\* a caller applies a fill: PositionTracker::update_position
BookUpdate(market_id, side, size, price) ==
    /\ Len(book_log) < MaxBookOps
    /\ position_tracker' = update_position(position_tracker, market_id, side, size, price)
    /\ book_log' = Append(book_log, [op |-> "update", market_id |-> market_id, side |-> side,
                                     size |-> size, price |-> price])
    /\ UNCHANGED <<execVars, first_cycle, order_tracker, orders_placed, cyc, call, poc, hist,
                   feedVars, cacheVars, ledger_ret, retry, limiter, main, locks, rate_limiter>>

\* a caller removes a position: PositionTracker::clear_position
BookClear(market_id) ==
    /\ Len(book_log) < MaxBookOps
    /\ position_tracker' = clear_position(position_tracker, market_id)
    /\ book_log' = Append(book_log, [op |-> "clear", market_id |-> market_id])
    /\ UNCHANGED <<execVars, first_cycle, order_tracker, orders_placed, cyc, call, poc, hist,
                   feedVars, cacheVars, ledger_ret, retry, limiter, main, locks, rate_limiter>>

\* PositionTracker::new()
NextBook ==
    \/ \E market_id \in MarketTokens, side \in BookSides, size \in BookSizes,
          price \in BookPrices : BookUpdate(market_id, side, size, price)
    \/ \E market_id \in MarketTokens : BookClear(market_id)

SpecBook == InitFeed /\ [][NextBook]_vars

RECURSIVE NetSize(_, _)
\* the Buy sizes minus the Sell sizes applied to a market since its last clear
NetSize(log, market_id) ==
    IF log = <<>> THEN RZero
    ELSE LET e == log[Len(log)]
             before == NetSize(SubSeq(log, 1, Len(log) - 1), market_id)
         IN  IF e.market_id # market_id THEN before
             ELSE IF e.op = "clear" THEN RZero
             ELSE IF e.side = "Buy" THEN RAdd(before, e.size)
             ELSE RSub(before, e.size)

\* C11: after any sequence of update_position calls on an instrument its
\* total_size is the absolute value of (Buy sizes - Sell sizes), its side is
\* Buy when that net is positive and Sell when it is negative, and total_size
\* is never negative.
NetPosition ==
    \A m \in DOMAIN position_tracker :
        LET net == NetSize(book_log, m)
            pos == position_tracker[m]
        IN  /\ pos.total_size = RAbs(net)
            /\ RLt(RZero, net) => pos.side = "Buy"
            /\ RLt(net, RZero) => pos.side = "Sell"
            /\ RLe(RZero, pos.total_size)

\* C11 witness: a position was opened on one side, flipped to the other by a
\* larger fill and then reduced.
FlippedAndReduced ==
    /\ Len(book_log) = 3
    /\ \A i \in 1..3 : book_log[i].op = "update" /\ book_log[i].market_id = UpToken
    /\ book_log[1].side = "Buy" /\ book_log[1].size = R(3, 1)
    /\ book_log[2].side = "Sell" /\ book_log[2].size = R(5, 1)
    /\ book_log[3].side = "Buy" /\ book_log[3].size = R(3, 1)


\* the inventory status of the book
Status == get_inventory_status(position_tracker)

\* C12 as stated: the skew lies in [-1, 1] and is 0 exactly when total_value is 0.
SkewZeroOnlyWhenEmpty ==
    /\ RLe(R(-1, 1), Status.skew) /\ RLe(Status.skew, R(1, 1))
    /\ Status.skew = calculate_inventory_skew(position_tracker)
    /\ Status.skew = RZero <=> Status.total_value = RZero

\* C12 amended: the skew lies in [-1, 1], both functions agree on it, it is 0
\* when total_value is 0, and it is 0 exactly when up_value equals down_value.
SkewBounded ==
    /\ RLe(R(-1, 1), Status.skew) /\ RLe(Status.skew, R(1, 1))
    /\ Status.skew = calculate_inventory_skew(position_tracker)
    /\ Status.total_value = RZero => Status.skew = RZero
    /\ Status.skew = RZero <=> Status.up_value = Status.down_value

\* C12 witness: a book with equal Buy and Sell value has skew 0 and a total
\* value above 0.
BalancedBookSeen ==
    /\ Status.skew = RZero
    /\ RLt(RZero, Status.total_value)

\* the two fills of the worked example
WorkedExample ==
    <<[op |-> "update", market_id |-> UpToken, side |-> "Buy",
       size |-> R(5, 1), price |-> R(1, 2)],
      [op |-> "update", market_id |-> DownToken, side |-> "Sell",
       size |-> R(3, 1), price |-> R(3, 5)]>>

\* C13: from an empty book, a Buy fill of 5 at 0.50 on the UP instrument and a
\* Sell fill of 3 at 0.60 on the DOWN instrument give up_value 2.5,
\* down_value 1.8, total_value 4.3 and skew 0.7 / 4.3.
WorkedExampleStatus ==
    book_log = WorkedExample =>
        /\ Status.up_value = R(5, 2)
        /\ Status.down_value = R(9, 5)
        /\ Status.total_value = R(43, 10)
        /\ Status.skew = R(7, 43)

\* C13 witness: the two fills of the example were applied to an empty book.
WorkedExampleSeen == book_log = WorkedExample /\ DOMAIN position_tracker = MarketTokens


\* ------------------------------------------------------------------------
\* The order ledger on its own: OrderTracker under any sequence of
\* track_order and clear_orders_for_token calls
\* ------------------------------------------------------------------------
MaxLedgerIds == 2
LedgerTokens == {UpToken, DownToken, OldToken}
LedgerSides == {"BUY", "SELL"}

\* OrderTracker::track_order, which returns nothing
LedgerTrack(token, order_id, side) ==
    /\ order_tracker' = track_order(order_tracker, token, order_id, side, FeedBid, order_size)
    /\ ledger_ret' = None
    /\ UNCHANGED <<execVars, first_cycle, position_tracker, orders_placed, cyc, call,
                   poc, hist, feedVars, cacheVars, book_log, retry, limiter, main, locks, rate_limiter>>

\* OrderTracker::clear_orders_for_token: before = len, retain, removed = before - len
LedgerClear(token) ==
    /\ order_tracker' = clear_orders_for_token(order_tracker, token)
    /\ ledger_ret' = Some([token |-> token,
                           removed |-> Cardinality(DOMAIN order_tracker)
                                       - Cardinality(DOMAIN order_tracker')])
    /\ UNCHANGED <<execVars, first_cycle, position_tracker, orders_placed, cyc, call,
                   poc, hist, feedVars, cacheVars, book_log, retry, limiter, main, locks, rate_limiter>>

NextLedger ==
    \/ \E token \in LedgerTokens, order_id \in 1..MaxLedgerIds, side \in LedgerSides :
          LedgerTrack(token, order_id, side)
    \/ \E token \in LedgerTokens : LedgerClear(token)

SpecLedger == InitFeed /\ [][NextLedger]_vars

\* C14: after clear_orders_for_token(key) no tracked order for key remains,
\* every tracked order for another key is unchanged, and the returned count
\* is the number of entries removed.
ClearRemovesOnlyKey ==
    [][\A token \in LedgerTokens :
          LedgerClear(token) =>
              /\ TrackedIds(order_tracker', token) = {}
              /\ token \notin DOMAIN order_tracker'
              /\ \A k \in DOMAIN order_tracker \ {token} :
                    k \in DOMAIN order_tracker' /\ order_tracker'[k] = order_tracker[k]
              /\ DOMAIN order_tracker' \subseteq DOMAIN order_tracker
              /\ ledger_ret' = Some([token |-> token,
                                     removed |-> Cardinality({k \in DOMAIN order_tracker :
                                                    order_tracker[k].token = token})])]_vars

\* C14 witness: a clear removed the one order of the UP token and returned 1
\* while the order of the DOWN token stayed tracked.
ClearedOneOfTwo ==
    /\ ledger_ret = Some([token |-> UpToken, removed |-> 1])
    /\ DOMAIN order_tracker = {DownToken}


\* ------------------------------------------------------------------------
\* retry_with_backoff (src/utils/retry.rs)
\* ------------------------------------------------------------------------
MaxRetries == 3
InitialDelays == {10, 20000}
RetryErrors == {"e1", "e2"}

\* RetryConfig::new
RetryConfigNew(max_retries, initial_delay_ms) ==
    [max_retries |-> max_retries, initial_delay_ms |-> initial_delay_ms,
     max_delay_ms |-> 30000, backoff_multiplier |-> 2]

\* RetryConfig::no_retry
RetryConfigNoRetry ==
    [max_retries |-> 0, initial_delay_ms |-> 0, max_delay_ms |-> 0, backoff_multiplier |-> 1]

RetryConfigs ==
    {RetryConfigNew(n, d) : n \in 0..MaxRetries, d \in InitialDelays} \cup {RetryConfigNoRetry}

\* a retry that also sleeps after the last attempt
ShouldSleepAlways(attempt, max_retries) == attempt <= max_retries

\* if attempt < config.max_retries
ShouldSleep(attempt, max_retries) == attempt < max_retries

\* ((delay_ms as f64 * config.backoff_multiplier) as u64).min(config.max_delay_ms)
NextDelay(delay_ms, config) ==
    LET scaled == delay_ms * config.backoff_multiplier
    IN  IF scaled < config.max_delay_ms THEN scaled ELSE config.max_delay_ms

\* the end of one turn of `for attempt in 0..=config.max_retries`: the next
\* attempt, or after the last one the error log and Err(last_error.unwrap())
NextAttempt(r) ==
    IF r.attempt + 1 <= r.config.max_retries
    THEN [r EXCEPT !.pc = "invoke", !.attempt = r.attempt + 1]
    ELSE [r EXCEPT !.pc = "returned", !.result = [ok |-> FALSE, error |-> r.last_error[1]]]

retryFrame ==
    <<execVars, cycleVars, feedVars, cacheVars, book_log, ledger_ret, limiter, main, locks, rate_limiter>>

\* the call: delay_ms = initial_delay_ms, last_error = None, attempt = 0
RetryCall(config) ==
    /\ retry.pc = "idle"
    /\ retry' = [pc |-> "invoke", config |-> config, attempt |-> 0,
                 delay_ms |-> config.initial_delay_ms, last_error |-> None,
                 outcomes |-> <<>>, sleeps |-> <<>>, result |-> None]
    /\ UNCHANGED retryFrame

\* operation().await returns Ok: return Ok(result)
RetryInvokeOk ==
    /\ retry.pc = "invoke"
    /\ retry' = [retry EXCEPT !.pc = "returned",
                              !.outcomes = Append(@, "ok"),
                              !.result = [ok |-> TRUE, value |-> Len(retry.outcomes) + 1]]
    /\ UNCHANGED retryFrame

\* operation().await returns Err(e): last_error = Some(e), then the sleep when
\* attempt < max_retries
RetryInvokeErr(e) ==
    /\ retry.pc = "invoke"
    /\ LET failed == [retry EXCEPT !.outcomes = Append(@, e), !.last_error = Some(e)]
       IN  retry' = IF ShouldSleep(retry.attempt, retry.config.max_retries)
                    THEN [failed EXCEPT !.pc = "sleep"]
                    ELSE NextAttempt(failed)
    /\ UNCHANGED retryFrame

\* sleep(delay_ms).await is over: the delay grows, the loop goes on
RetrySleep ==
    /\ retry.pc = "sleep"
    /\ retry' = NextAttempt([retry EXCEPT !.sleeps = Append(@, retry.delay_ms),
                                          !.delay_ms = NextDelay(retry.delay_ms, retry.config)])
    /\ UNCHANGED retryFrame

NextRetry ==
    \/ \E config \in RetryConfigs : RetryCall(config)
    \/ RetryInvokeOk
    \/ \E e \in RetryErrors : RetryInvokeErr(e)
    \/ RetrySleep

SpecRetry == InitFeed /\ [][NextRetry]_vars

\* the number of failed invocations of the call
Failures == Len(SelectSeq(retry.outcomes, LAMBDA o : o # "ok"))

\* C15: with max_retries N, an operation that fails k <= N times and then
\* succeeds is invoked k + 1 times and its success is returned; one that
\* always fails is invoked N + 1 times and the error of the last invocation
\* is returned; no sleep follows the last attempt, and the operation is not
\* invoked after the return.
RetryCounts ==
    /\ [](retry.pc = "returned" =>
            /\ Len(retry.sleeps) = Len(retry.outcomes) - 1
            /\ Failures <= retry.config.max_retries + 1
            /\ retry.result.ok =>
                  /\ Failures <= retry.config.max_retries
                  /\ Len(retry.outcomes) = Failures + 1
                  /\ retry.outcomes[Len(retry.outcomes)] = "ok"
                  /\ retry.result.value = Len(retry.outcomes)
            /\ ~retry.result.ok =>
                  /\ Failures = retry.config.max_retries + 1
                  /\ Len(retry.outcomes) = retry.config.max_retries + 1
                  /\ retry.result.error = retry.outcomes[Len(retry.outcomes)])
    /\ [][retry.pc = "returned" => retry' = retry]_vars

\* C15 witness: with max_retries 3 the operation failed three times with one
\* error after another and then succeeded, after three sleeps.
RetriedToSuccess ==
    /\ retry.pc = "returned"
    /\ retry.config.max_retries = 3
    /\ retry.outcomes = <<"e1", "e2", "e1", "ok">>
    /\ Len(retry.sleeps) = 3


\* ------------------------------------------------------------------------
\* RateLimiter (src/utils/rate_limiter.rs); the clock counts milliseconds
\* ------------------------------------------------------------------------
MaxClock == 6
MinDelays == {2, 3}

\* Instant::now().elapsed().as_millis() of an Instant taken in the statement
\* before: 0, or more when the thread was descheduled in between
Readings == {0, 1}

\* a.saturating_sub(b)
saturating_sub(a, b) == IF a > b THEN a - b ELSE 0

\* the time RateLimiter::wait sleeps
SleepMs(last, now_ms, min_delay_ms) ==
    IF last > 0
    THEN LET elapsed == saturating_sub(now_ms, last)
         IN  IF elapsed < min_delay_ms THEN min_delay_ms - elapsed ELSE 0
    ELSE 0

limiterFrame ==
    <<execVars, cycleVars, feedVars, cacheVars, book_log, ledger_ret, retry, main, locks, rate_limiter>>

\* RateLimiter::new
LimiterNew(min_delay_ms) ==
    /\ limiter.pc = "idle"
    /\ limiter' = [pc |-> "ready", min_delay_ms |-> min_delay_ms, last_call |-> 0,
                   clock |-> 0, last_return |-> None, reset_since |-> FALSE, slept |-> 0]
    /\ UNCHANGED limiterFrame

\* RateLimiter::wait, from the call to the return
LimiterWait(now_ms, stored) ==
    /\ limiter.pc = "ready"
    /\ LET sleep_ms == SleepMs(limiter.last_call, now_ms, limiter.min_delay_ms)
       IN  /\ limiter.clock + sleep_ms <= MaxClock
           /\ limiter' = [limiter EXCEPT !.clock = @ + sleep_ms,
                                         !.last_call = stored,
                                         !.last_return = Some(limiter.clock + sleep_ms),
                                         !.reset_since = FALSE,
                                         !.slept = sleep_ms]
    /\ UNCHANGED limiterFrame

\* RateLimiter::reset
LimiterReset ==
    /\ limiter.pc = "ready"
    /\ limiter' = [limiter EXCEPT !.last_call = 0, !.reset_since = TRUE]
    /\ UNCHANGED limiterFrame

\* a millisecond passes between two calls
LimiterTick ==
    /\ limiter.pc = "ready"
    /\ limiter.clock < MaxClock
    /\ limiter' = [limiter EXCEPT !.clock = @ + 1]
    /\ UNCHANGED limiterFrame

NextLimiter ==
    \/ \E min_delay_ms \in MinDelays : LimiterNew(min_delay_ms)
    \/ \E now_ms \in Readings, stored \in Readings : LimiterWait(now_ms, stored)
    \/ LimiterReset
    \/ LimiterTick

SpecLimiter == InitFeed /\ [][NextLimiter]_vars

\* C16: two successive returns from wait() with no reset() in between are at
\* least min_delay_ms apart, and a wait() that directly follows reset()
\* returns without sleeping.
WaitsSpaced ==
    [][(\E now_ms \in Readings, stored \in Readings : LimiterWait(now_ms, stored)) =>
          /\ (limiter.last_return # None /\ ~limiter.reset_since) =>
                limiter'.last_return[1] - limiter.last_return[1] >= limiter.min_delay_ms
          /\ limiter.reset_since => limiter'.slept = 0]_vars


\* ------------------------------------------------------------------------
\* The feed's connection task: start, stop, reconnection, unknown messages
\* ------------------------------------------------------------------------
\* the connection tasks that have not ended
LiveTasks == {j \in Tasks : tasks[j].pc # "exited"}

\* C17: a start call made while a connection task is live creates no second
\* task: when start returns exactly one connection task is live.
StartKeepsOneTask ==
    [][StartSpawn => Cardinality(LiveTasks') = 1]_vars


\* connection task i exists and is at the given place of connect_market
TaskAt(i, pc) == i \in Tasks /\ tasks[i].pc = pc

\* one step of connection task i, whatever the peer sends
TaskStep(i) ==
    /\ i \in Tasks
    /\ \/ TaskCheckRunning(i)
       \/ TaskConnect(i)
       \/ TaskWake(i)
       \/ \E asset_id \in {UpToken, OldToken}, bids \in BidSides, asks \in AskSides :
            FeedRecvBook(i, asset_id, "book", bids, asks)
       \/ FeedRecvBook(i, UpToken, "last_trade_price", <<FeedBid>>, <<FeedAsk>>)
       \/ \E asset_id \in {UpToken}, price \in FeedPrices :
            FeedRecvPriceChanges(i, asset_id, price)
       \/ \E entry_prices \in SnapshotEntries : FeedRecvSnapshot(i, entry_prices)
       \/ \E on_char_boundary \in BOOLEAN : FeedRecvUnrecognized(i, on_char_boundary)
       \/ FeedPing(i)
       \/ FeedClosed(i)
       \/ FeedReadError(i)

\* The runtime schedules every spawned task, and each of its awaits is bounded
\* by a timer: the 30 s connect timeout, the 30 s read timeout and the ping
\* interval of the read loop, the 5 s reconnect sleep.
SpecFeedFair ==
    /\ InitFeed
    /\ [][NextFeed]_vars
    /\ \A i \in 1..MaxTasks : WF_vars(TaskStep(i))

\* C18: once stop() has set running to false and nothing sets it again, a
\* connection task begins no new connection attempt, and it eventually ends
\* (in the read loop it closes its socket and returns).
StopHaltsTask ==
    /\ [][\A i \in Tasks :
            (~running /\ tasks[i].pc # "connecting") => tasks'[i].pc # "connecting"]_vars
    /\ \A i \in 1..MaxTasks :
          (i \in Tasks /\ ~running) ~> (running \/ TaskAt(i, "exited"))

\* C18 witness: after start and stop the connection tasks have returned.
StoppedTaskExited ==
    /\ ~running
    /\ us.pc = "idle"
    /\ us.last_call = "start"
    /\ tasks # <<>>
    /\ \A i \in Tasks : tasks[i].pc = "exited"

\* C19: while running is true a connection task that is connecting or waits
\* to reconnect never returns; a failed connect and a closed socket put it
\* into the reconnect delay, and the delay is followed by another connection
\* attempt, however often that has happened before.
ReconnectsForever ==
    /\ [][\A i \in Tasks :
            /\ (running /\ tasks[i].pc \notin {"exited", "reading"})
                  => tasks'[i].pc # "exited"
            /\ FeedClosed(i) => tasks'[i].pc = "reconnect_sleep"
            /\ (TaskConnect(i) /\ tasks'[i].pc # "reading")
                  => tasks'[i].pc = "reconnect_sleep"]_vars
    /\ \A i \in 1..MaxTasks :
          TaskAt(i, "reconnect_sleep") ~> (~running \/ TaskAt(i, "connecting"))

\* C19 witness: the feed is running and a connection task whose connect
\* failed or whose socket closed waits out the reconnect delay.
ReconnectPending ==
    /\ running
    /\ us.pc = "idle"
    /\ us.last_call = "start"
    /\ \E i \in Tasks : tasks[i].pc = "reconnect_sleep" /\ ~tasks[i].old


\* C20: a text message that parses as none of the event formats is dropped:
\* the price cache is unchanged and, unless the feed was stopped, the task
\* stays in its read loop with its connection open.
UnrecognizedDropped ==
    [][\A i \in Tasks :
          (\E on_char_boundary \in BOOLEAN : FeedRecvUnrecognized(i, on_char_boundary)) =>
              /\ last_prices' = last_prices
              /\ running => tasks'[i].pc = "reading"]_vars

\* ------------------------------------------------------------------------
\* The keys of the price cache
\* ------------------------------------------------------------------------
\* C21: every entry of the price cache is stored under the canonical key of
\* its instrument, the first 20 characters of the identifier followed by
\* _bid or _ask, so that get_price finds it from any identifier with that
\* prefix.
CanonicalKeys ==
    \A k \in DOMAIN last_prices :
        /\ k[1] = ShortTokenId(k[1])
        /\ k[2] \in {"_bid", "_ask"}

\* ------------------------------------------------------------------------
\* The select! loop of main(): trading tick, panic boundary, shutdown
\* ------------------------------------------------------------------------
MaxPanics == 1

\* TradingStats as save_to_file writes it
StatsNow == [orders_placed |-> orders_placed, errors |-> main.errors]

mainFrame == <<book_log, ledger_ret, retry, limiter, locks, rate_limiter>>

\* a panic in the cycle that nothing catches: the main task is gone
CyclePanicUncaught ==
    /\ main.pc = "loop"
    /\ cyc.pc # "idle"
    /\ main.errors < MaxPanics
    /\ Return
    /\ hist' = HistEmpty
    /\ main' = [main EXCEPT !.pc = "exited"]
    /\ UNCHANGED <<execVars, first_cycle, order_tracker, position_tracker, orders_placed,
                   feedVars, cacheVars, mainFrame>>

\* run_trading_cycle_single_market, lines 509-529, and main, lines 312-326: a
\* panic anywhere in the cycle's body is caught by catch_unwind and returned
\* as Err; the tick arm logs it and calls stats.record_error()
CyclePanic ==
    /\ main.pc = "loop"
    /\ cyc.pc # "idle"
    /\ main.errors < MaxPanics
    /\ Return
    /\ hist' = HistEmpty
    /\ main' = [main EXCEPT !.errors = @ + 1]
    /\ UNCHANGED <<execVars, first_cycle, order_tracker, position_tracker, orders_placed,
                   feedVars, cacheVars, mainFrame>>

\* main, lines 110-115: ctrl_c arrives and the signal task sends on the channel
ShutdownSignal ==
    /\ main.pc = "loop"
    /\ main.shutdown = "none"
    /\ main' = [main EXCEPT !.shutdown = IF cyc.pc = "idle" THEN "sent" ELSE "sent_in_cycle"]
    /\ UNCHANGED <<execVars, cycleVars, feedVars, cacheVars, mainFrame>>

\* a shutdown arm that leaves the loop without writing the statistics
ShutdownArmNoSave(save_ok) ==
    /\ main.pc = "loop"
    /\ cyc.pc = "idle"
    /\ main.shutdown \in {"sent", "sent_in_cycle"}
    /\ main' = [main EXCEPT !.pc = "exited"]
    /\ UNCHANGED <<execVars, cycleVars, feedVars, cacheVars, mainFrame>>

\* main, lines 328-341: the shutdown arm of select!, polled only between two
\* arms: stats.save_to_file(), whose error is logged, then break
ShutdownArm(save_ok) ==
    /\ main.pc = "loop"
    /\ cyc.pc = "idle"
    /\ main.shutdown \in {"sent", "sent_in_cycle"}
    /\ main' = [main EXCEPT !.pc = "exited",
                            !.saved = Some([ok |-> save_ok, stats |-> StatsNow])]
    /\ UNCHANGED <<execVars, cycleVars, feedVars, cacheVars, mainFrame>>

\* the bot trading live, at its first trading tick
InitLive == Init /\ ~simulation_mode

\* the trading cycles with panics in them
NextPanic ==
    \/ Next
    \/ CyclePanic

SpecPanic == InitLive /\ [][NextPanic]_vars

\* the trading cycles until ctrl_c
NextShutdown ==
    \/ Next
    \/ ShutdownSignal
    \/ \E save_ok \in BOOLEAN : ShutdownArm(save_ok)

SpecShutdown == InitLive /\ [][NextShutdown]_vars

\* C22: a trading tick starts a cycle only when no cycle is in progress: the
\* previous cycle's body, with every call it made, has returned.
OneCycleAtATime ==
    [][TradingTick => (cyc.pc = "idle" /\ call = NoCall /\ poc = NoPoc)]_vars

\* C22 witness: orders were placed by an earlier cycle and the next cycle has
\* started.
SecondCycleStarted ==
    /\ orders_placed >= 1
    /\ cyc.pc = "check_ws"

\* C23: a panic inside a trading cycle ends the cycle as a failed one: the
\* error counter goes up by one, the loop is back at select! where the next
\* trading tick can be handled, and the feed and its task are as they were.
PanicIsFailedCycle ==
    [][CyclePanic =>
          /\ main'.errors = main.errors + 1
          /\ main'.pc = "loop"
          /\ cyc'.pc = "idle"
          /\ UNCHANGED <<feedVars, cacheVars>>]_vars

\* C23 witness: after a caught panic a later cycle is under way while the
\* feed's connection task is in its read loop.
CycleAfterPanic ==
    /\ main.errors = 1
    /\ cyc.pc = "check_limit"
    /\ running
    /\ tasks[1].pc = "reading"

RemainingRoom == RSub(max_total_position, cyc.status_total_value)

\* the cycle decided non-zero sizes in this step
SizesDecided == BalanceCheck /\ cyc'.pc = "place_up"

IntendedCost(size, price, skipped) ==
    IF RLt(RZero, size) /\ ~skipped THEN RMul(price, size) ELSE RZero

\* the buffered cost of the orders the cycle intends to place, given its sizes
IntendedNeed(up_size, down_size) ==
    RMul(RAdd(IntendedCost(up_size, cyc.up_bid_price, skip_buy_up(cyc.inventory_skew)),
              IntendedCost(down_size, cyc.down_bid_price,
                           skip_buy_down(cyc.inventory_skew))),
         BUFFER_RATIO)

\* the cycle returned at its balance check (line 933)
StoppedAtBalanceCheck ==
    /\ cyc.pc = "idle"
    /\ "balance_check" \in hist.steps
    /\ "decide_sizes" \notin hist.steps

\* C26: the cycle goes on to place orders only on a balance answer that is at
\* least 1.15 times the sum of price * size over the orders it intends to
\* place; on an answer that is insufficient or gives no balance it places no
\* order, and the position updates of its fills stay applied.
BalanceCoversIntendedOrders ==
    /\ [][\A response \in BalanceResponses :
            BalanceCheckOn(response) =>
               /\ position_tracker' = position_tracker
               /\ cyc'.pc = "place_up" =>
                     LET sizes == Sizes(cyc.inventory_skew, cyc.status_total_value)
                     IN  /\ response.kind = "balance"
                         /\ cyc'.up_size = sizes[1] /\ cyc'.down_size = sizes[2]
                         /\ RLe(IntendedNeed(sizes[1], sizes[2]), response.USDC)]_vars
    /\ [](StoppedAtBalanceCheck =>
            /\ hist.placed = {} /\ hist.posted = {}
            /\ \A o \in hist.fills :
                 /\ o.token \in DOMAIN position_tracker
                 /\ RLe(o.size, position_tracker[o.token].total_size))

\* down_need_now (line 1003): the buffered cost of the DOWN order
DownNeedNow == RMul(RMul(cyc.down_bid_price, cyc.down_size), BUFFER_RATIO)

DecisionsUsePostFillSkew ==
    [][(BalanceCheck \/ PlaceUp \/ PlaceDown) =>
         /\ "fill_detection" \in hist.steps
         /\ "recompute_skew" \in hist.steps
         /\ cyc.inventory_skew = calculate_inventory_skew(position_tracker)]_vars

\* the book was empty when the cycle began, the cycle applied one fill, and
\* the sizes were decided on the skew of that fill: the UP side is skipped
SkewOfThisCyclesFill ==
    /\ cyc.pc = "place_up"
    /\ Cardinality(hist.fills) = 1
    /\ DOMAIN position_tracker = {UpToken}
    /\ \A o \in hist.fills : o.token = UpToken /\ o.size = position_tracker[UpToken].total_size
    /\ skip_buy_up(cyc.inventory_skew)
    /\ cyc.up_size = RZero /\ RLt(RZero, cyc.down_size)

\* ------------------------------------------------------------------------
\* Dynamic position limit (position.rs 275-306).
\* ------------------------------------------------------------------------
\* PositionTracker::get_position_limit
get_position_limit(positions, side, base_max_position) ==
    LET skew == calculate_inventory_skew(positions)
        base_limit == RDiv(base_max_position, R(2, 1))
        one == R(1, 1)
    IN  IF side = "Buy"
        THEN IF RLt(R(1, 2), skew)
             THEN RMul(base_limit, RSub(one, skew))
             ELSE RMul(base_limit, RAdd(one, RAbs(skew)))
        ELSE IF RLt(skew, R(-1, 2))
             THEN RMul(base_limit, RSub(one, RAbs(skew)))
             ELSE RMul(base_limit, RAdd(one, skew))

\* C29: get_position_limit(Buy, base_max) is base_max / 2 for an empty book and
\* strictly below base_max / 2 for every book that is net long (skew > 0);
\* get_position_limit(Sell, base_max) is strictly below base_max / 2 for every
\* book that is net short (skew < 0).
LimitReducedOnHeavySide ==
    LET skew == calculate_inventory_skew(position_tracker)
        half == RDiv(max_position, R(2, 1))
    IN  /\ position_tracker = <<>> =>
              get_position_limit(position_tracker, "Buy", max_position) = half
        /\ RLt(RZero, skew) =>
              RLt(get_position_limit(position_tracker, "Buy", max_position), half)
        /\ RLt(skew, RZero) =>
              RLt(get_position_limit(position_tracker, "Sell", max_position), half)

\* main.rs 858-870: the limits the cycle computes for buying UP and DOWN
buy_limit_up(skew, base_max_position) ==
    LET base_limit == RDiv(base_max_position, R(2, 1))
    IN  IF RLt(R(1, 2), skew)
        THEN RMul(base_limit, RSub(R(1, 1), skew))
        ELSE RMul(base_limit, RAdd(R(1, 1), RAbs(skew)))
buy_limit_down(skew, base_max_position) ==
    LET base_limit == RDiv(base_max_position, R(2, 1))
    IN  IF RLt(skew, R(-1, 2))
        THEN RMul(base_limit, RSub(R(1, 1), RAbs(skew)))
        ELSE RMul(base_limit, RAdd(R(1, 1), RAbs(skew)))

\* Configured values of max_position: the default and one below the order
\* size. The cycle reads max_position only to compute the two limits above,
\* so each behaviour of the cycle is a behaviour under either value.
MaxPositionValues == {max_position, R(1, 2)}

\* C30: the size of an order the cycle hands to place_order_complete never
\* exceeds the limit of its side, computed from max_position at the skew the
\* cycle recomputed after its fills.
OrderSizeWithinLimit ==
    \A configured \in MaxPositionValues :
        poc # NoPoc =>
            RLe(poc.size,
                IF poc.token = Some(UpToken)
                THEN buy_limit_up(cyc.inventory_skew, configured)
                ELSE buy_limit_down(cyc.inventory_skew, configured))

\* ------------------------------------------------------------------------
\* Merge opportunity of the traded market (position.rs 226-252, main.rs 592-597).
\* ------------------------------------------------------------------------
\* the size held for one instrument of the market, zero when there is none
HeldSize(token) ==
    IF token \in DOMAIN position_tracker THEN position_tracker[token].total_size ELSE RZero

\* C31: once fills have left a positive UP holding and a positive DOWN holding
\* of the market, check_merge_opportunity for the market (called with the UP
\* token, as the cycle does) returns Some(min of the two sizes) when that
\* minimum is at least merge_threshold, and None when a holding is missing or
\* the minimum is below the threshold.
MergeOpportunityReported ==
    LET merge_amount == RMin(HeldSize(UpToken), HeldSize(DownToken))
        both_held == RLt(RZero, HeldSize(UpToken)) /\ RLt(RZero, HeldSize(DownToken))
    IN  check_merge_opportunity(position_tracker, UpToken, merge_threshold)
          = IF both_held /\ RLe(merge_threshold, merge_amount)
            THEN Some(merge_amount) ELSE None

\* ------------------------------------------------------------------------
\* The tokio RwLocks shared by the tasks (websocket/mod.rs, main.rs 718-763).
\* A lock is fair: requests are served first come first served, and a read is
\* refused while a write is held or queued before it.
\* ------------------------------------------------------------------------
Acquire(lock, mode) == [op |-> "acquire", lock |-> lock, mode |-> mode]
Release(lock) == [op |-> "release", lock |-> lock, mode |-> "none"]

\* the lock operations of each function, in program order; a guard bound to a
\* name is released at the end of its block
LockPrograms ==
    [\* process_orderbook_snapshot, lines 547-613: `tokens` lives to the end
     snapshot |->
        <<Acquire("subscribed_tokens", "read"),
          Acquire("msg_counter", "write"), Release("msg_counter"),
          Acquire("last_prices", "write"), Release("last_prices"),
          Acquire("last_display_time", "write"), Release("last_display_time"),
          Release("subscribed_tokens")>>,
     \* get_all_prices, lines 301-317: `prices`, then `tokens`
     get_all_prices |->
        <<Acquire("last_prices", "read"), Acquire("subscribed_tokens", "read"),
          Release("subscribed_tokens"), Release("last_prices")>>,
     \* update_subscription, lines 215-243: each guard in a block of its own
     update_subscription |->
        <<Acquire("running", "write"), Release("running"),
          Acquire("subscribed_tokens", "write"), Release("subscribed_tokens"),
          Acquire("last_prices", "write"), Release("last_prices"),
          Acquire("running", "write"), Release("running")>>,
     \* main.rs 718-737, one filled order: the read guard of order_tracker is a
     \* temporary of the `if let` and lives to the end of its body
     apply_fill |->
        <<Acquire("order_tracker", "read"),
          Acquire("position_tracker", "write"), Release("position_tracker"),
          Acquire("stats", "write"), Release("stats"),
          Release("order_tracker")>>]

\* the main task runs the cycle and the market check one after the other
LockCallersConcurrent == {<<"main", 1>>, <<"main", 2>>}
LockCallers == {<<"main", 1>>}
CallerPrograms == {"get_all_prices", "update_subscription", "apply_fill"}
\* the connection tasks, each handling the snapshots it receives
FeedLockTasks == {<<"feed", i>> : i \in 1..MaxTasks}
LockTasks == LockCallers \cup FeedLockTasks

InCall(t) == t \in DOMAIN locks.pc
NextOp(t) == LockPrograms[locks.pc[t].prog][locks.pc[t].i]
AtOp(t, op) ==
    /\ InCall(t) /\ ~locks.pc[t].waiting
    /\ locks.pc[t].i <= Len(LockPrograms[locks.pc[t].prog])
    /\ NextOp(t).op = op
Waiting(t) == InCall(t) /\ locks.pc[t].waiting
HeldBy(t) == {h \in locks.held : h.task = t}
AskedBy(t) == {k \in 1..Len(locks.queue) : locks.queue[k].task = t}

Compatible(lock, mode) ==
    IF mode = "write" THEN \A h \in locks.held : h.lock # lock
    ELSE \A h \in locks.held : h.lock = lock => h.mode = "read"
Grantable(k) ==
    /\ Compatible(locks.queue[k].lock, locks.queue[k].mode)
    /\ \A j \in 1..(k - 1) : locks.queue[j].lock # locks.queue[k].lock
SetPc(t, rec) == [x \in DOMAIN locks.pc \cup {t} |-> IF x = t THEN rec ELSE locks.pc[x]]
Advance(t) == SetPc(t, [locks.pc[t] EXCEPT !.i = @ + 1, !.waiting = FALSE])
RemoveAt(q, k) == [j \in 1..(Len(q) - 1) |-> IF j < k THEN q[j] ELSE q[j + 1]]

lockFrame ==
    <<execVars, cycleVars, feedVars, cacheVars, book_log, ledger_ret, retry, limiter, main,
      rate_limiter>>

\* a task enters one of its functions
LockCall(t, prog) ==
    /\ ~InCall(t)
    /\ IF t \in FeedLockTasks THEN prog = "snapshot" ELSE prog \in CallerPrograms
    /\ locks' = [locks EXCEPT !.pc = SetPc(t, [prog |-> prog, i |-> 1, waiting |-> FALSE])]
    /\ UNCHANGED lockFrame

\* lock.read().await / lock.write().await: taken at once when the lock is free
\* for the mode and nobody is queued on it, queued otherwise
LockAcquire(t) ==
    /\ AtOp(t, "acquire")
    /\ LET req == [lock |-> NextOp(t).lock, task |-> t, mode |-> NextOp(t).mode]
       IN  IF /\ Compatible(req.lock, req.mode)
              /\ \A k \in 1..Len(locks.queue) : locks.queue[k].lock # req.lock
           THEN locks' = [locks EXCEPT !.held = @ \cup {req}, !.pc = Advance(t)]
           ELSE locks' = [locks EXCEPT !.queue = Append(@, req),
                                       !.pc = SetPc(t, [locks.pc[t] EXCEPT !.waiting = TRUE])]
    /\ UNCHANGED lockFrame

\* a queued request is served
LockGranted(t) ==
    /\ Waiting(t)
    /\ \E k \in AskedBy(t) :
         /\ Grantable(k)
         /\ locks' = [locks EXCEPT !.held = @ \cup {locks.queue[k]},
                                   !.queue = RemoveAt(@, k),
                                   !.pc = Advance(t)]
    /\ UNCHANGED lockFrame

\* a guard is dropped
LockRelease(t) ==
    /\ AtOp(t, "release")
    /\ locks' = [locks EXCEPT !.held = {h \in @ : ~(h.task = t /\ h.lock = NextOp(t).lock)},
                              !.pc = Advance(t)]
    /\ UNCHANGED lockFrame

\* the function returns
LockReturn(t) ==
    /\ InCall(t) /\ locks.pc[t].i > Len(LockPrograms[locks.pc[t].prog])
    /\ locks' = [locks EXCEPT !.pc = [x \in DOMAIN locks.pc \ {t} |-> locks.pc[x]]]
    /\ UNCHANGED lockFrame

LockRun(t) == LockAcquire(t) \/ LockGranted(t) \/ LockRelease(t) \/ LockReturn(t)

NextLocks ==
    \/ \E t \in LockTasks, prog \in DOMAIN LockPrograms : LockCall(t, prog)
    \/ \E t \in LockTasks : LockAcquire(t)
    \/ \E t \in LockTasks : LockGranted(t)
    \/ \E t \in LockTasks : LockRelease(t)
    \/ \E t \in LockTasks : LockReturn(t)

SpecLocks == InitFeed /\ [][NextLocks]_vars
\* a task inside a function is scheduled again, and the lock serves its queue
SpecLocksFair == SpecLocks /\ \A t \in LockTasks : WF_vars(LockRun(t))

\* C32: a task that asks for a lock, or waits for one, holds no other lock.
OneLockAtATime ==
    /\ \A t \in LockTasks : Waiting(t) => HeldBy(t) = {}
    /\ \A t \in LockTasks : Cardinality(HeldBy(t)) <= 1

NewEntries ==
    {k \in DOMAIN order_tracker' :
        k \notin DOMAIN order_tracker \/ order_tracker'[k] # order_tracker[k]}

\* C33: a step creates or replaces a ledger entry only when place_order_complete
\* has just returned an order id (the simulated id, or the id of the order the
\* venue accepted in this step) for the instrument the cycle asked for, and the
\* entry is stored under that instrument; the ledger is keyed by instrument, so
\* it holds at most one entry for each.
LedgerEntriesArePlacements ==
    /\ [](\A k \in DOMAIN order_tracker : order_tracker[k].token = k)
    /\ [][\A k \in NewEntries :
            /\ cyc.pc \in {"poc_start", "poc_post"}
            /\ poc.token = Some(k)
            /\ order_tracker'[k] = [order_id |-> order_tracker'[k].order_id, token |-> k,
                                    side |-> "BUY", price |-> poc.price, size |-> poc.size]
            /\ IF simulation_mode
               THEN order_tracker'[k].order_id = SimulatedId
               ELSE /\ order_tracker'[k].order_id = next_order_id
                    /\ next_order_id' = next_order_id + 1
                    /\ \E o \in venue_open' \ venue_open :
                         o.order_id = next_order_id /\ o.token = k]_vars
\* the UP placement of this cycle failed and left no entry, the DOWN placement
\* returned the id of the order the venue accepted and is stored under DOWN
FailedAbsentPlacedStored ==
    /\ cyc.pc = "done" /\ ~simulation_mode
    /\ UpToken \in hist.placed /\ UpToken \notin hist.posted
    /\ UpToken \notin DOMAIN order_tracker
    /\ DownToken \in hist.posted /\ DownToken \in DOMAIN order_tracker
    /\ order_tracker[DownToken].order_id = next_order_id - 1

\* C36: when a cycle that applied fills ends, none of the orders it applied is
\* still in the ledger, so the next fill detection cannot apply it again.
AppliedOrderLeavesLedger ==
    [][cyc.pc # "idle" /\ cyc'.pc = "idle" =>
         \A o \in hist.fills :
            o.order_id # SimulatedId =>
               ~(o.token \in DOMAIN order_tracker' /\ order_tracker'[o.token].order_id = o.order_id)]_vars

\* C35: a task whose connection has reported a read error is not in the read
\* loop of that connection: the error makes it leave the loop for the
\* reconnect delay, like a close or the end of the stream.
ReadErrorLeavesReadLoop ==
    \A i \in Tasks : tasks[i].pc = "reading" => ~tasks[i].read_error

\* the quote of a token lies outside the safe range but inside [min_price, max_price]
OutsideSafeRange(price, range) ==
    PriceValid(price) /\ ~is_price_in_safe_range(price, range.low, range.high)

MaxWaiters == 2
MaxWaits == 3
\* the clock runs freely up to here, and beyond only while a task sleeps
MaxRateClock == 4
Waiters == 1..MaxWaiters
MinIntervals == {2, 3}

\* a wait() that never sleeps
wait_time_zero(elapsed, min_interval) == 0
\* lines 39-42: the time wait() sleeps
wait_time(elapsed, min_interval) ==
    IF elapsed < min_interval THEN min_interval - elapsed ELSE 0

rateFrame ==
    <<execVars, cycleVars, feedVars, cacheVars, book_log, ledger_ret, retry, limiter, main, locks>>

\* RateLimiter::new: the last request is set 60 s into the past
RateLimiterNew(min_interval_ms) ==
    /\ rate_limiter.pc = "unbuilt"
    /\ rate_limiter' = [pc |-> "ready", min_interval |-> min_interval_ms, clock |-> 0,
                        last_request |-> 0 - 60000, owner |-> 0, queue |-> <<>>,
                        at |-> [t \in Waiters |-> "idle"], wake |-> 0,
                        calls |-> 0, returned |-> 0]
    /\ UNCHANGED rateFrame

\* lines 36-46 once the mutex is held by t: read the clock, then either sleep
\* with the guard held, or store the time and return, dropping the guard
Locked(rl, t) ==
    LET elapsed == rl.clock - rl.last_request
        wait == wait_time(elapsed, rl.min_interval)
    IN  IF wait > 0
        THEN [rl EXCEPT !.owner = t, !.at[t] = "sleeping", !.wake = rl.clock + wait]
        ELSE [rl EXCEPT !.owner = 0, !.at[t] = "idle", !.last_request = rl.clock,
                        !.returned = @ + 1]

\* wait() is called: line 35, self.last_request.lock().await
WaitCall(t) ==
    /\ rate_limiter.pc = "ready"
    /\ rate_limiter.at[t] = "idle"
    /\ rate_limiter.calls < MaxWaits
    /\ LET rl == [rate_limiter EXCEPT !.calls = @ + 1]
       IN  rate_limiter' = IF rl.owner = 0 /\ rl.queue = <<>>
                           THEN Locked(rl, t)
                           ELSE [rl EXCEPT !.queue = Append(@, t), !.at[t] = "queued"]
    /\ UNCHANGED rateFrame

\* the mutex is handed to the first task of its queue
WaitGranted(t) ==
    /\ rate_limiter.pc = "ready"
    /\ rate_limiter.at[t] = "queued"
    /\ rate_limiter.owner = 0
    /\ Head(rate_limiter.queue) = t
    /\ rate_limiter' = Locked([rate_limiter EXCEPT !.queue = Tail(@)], t)
    /\ UNCHANGED rateFrame

\* lines 41-45: the sleep is over; *last = Instant::now(), the guard is dropped
WaitWake(t) ==
    /\ rate_limiter.pc = "ready"
    /\ rate_limiter.at[t] = "sleeping"
    /\ rate_limiter.clock >= rate_limiter.wake
    /\ rate_limiter' = [rate_limiter EXCEPT !.owner = 0, !.at[t] = "idle",
                                            !.last_request = rate_limiter.clock,
                                            !.returned = @ + 1]
    /\ UNCHANGED rateFrame

\* a millisecond passes
RateTick ==
    /\ rate_limiter.pc = "ready"
    /\ \/ rate_limiter.clock < MaxRateClock
       \/ \E t \in Waiters : /\ rate_limiter.at[t] = "sleeping"
                             /\ rate_limiter.clock < rate_limiter.wake
    /\ rate_limiter' = [rate_limiter EXCEPT !.clock = @ + 1]
    /\ UNCHANGED rateFrame

NextRateLimiter ==
    \/ \E min_interval_ms \in MinIntervals : RateLimiterNew(min_interval_ms)
    \/ \E t \in Waiters : WaitCall(t)
    \/ \E t \in Waiters : WaitGranted(t)
    \/ \E t \in Waiters : WaitWake(t)
    \/ RateTick

SpecRateLimiter == InitFeed /\ [][NextRateLimiter]_vars
\* a task inside wait() is polled again, the mutex serves its queue, timers fire
SpecRateLimiterFair ==
    /\ SpecRateLimiter
    /\ \A t \in Waiters : WF_vars(WaitGranted(t)) /\ WF_vars(WaitWake(t))
    /\ WF_vars(RateTick)

InWait(t) == rate_limiter.pc = "ready" /\ rate_limiter.at[t] # "idle"

\* C40: at most one task is past the lock of wait() at a time, any return from
\* wait() comes at least min_interval after the return before it, and every
\* task that called wait() returns from it.
WaitSerializedSpacedAndReturns ==
    /\ [](rate_limiter.pc = "ready" =>
            /\ Cardinality({t \in Waiters : rate_limiter.at[t] = "sleeping"}) <= 1
            /\ \A t \in Waiters : rate_limiter.at[t] = "sleeping" => rate_limiter.owner = t)
    /\ [][rate_limiter.pc = "ready" /\ rate_limiter.returned > 0
          /\ rate_limiter'.returned = rate_limiter.returned + 1
          => rate_limiter'.last_request - rate_limiter.last_request
                >= rate_limiter.min_interval]_vars
    /\ \A t \in Waiters : InWait(t) ~> ~InWait(t)
\* one task sleeps with the mutex held after an earlier return while another
\* task is queued on the mutex
WaiterQueuedBehindSleeper ==
    /\ rate_limiter.pc = "ready" /\ rate_limiter.returned > 0
    /\ \E t \in Waiters, u \in Waiters :
          /\ rate_limiter.at[t] = "sleeping" /\ rate_limiter.owner = t
          /\ rate_limiter.at[u] = "queued"

\* ------------------------------------------------------------------------
\* Market rotation: the market_check arm of main (src/main.rs 196-262).
\* UpToken and DownToken stand for the tokens of the current market; when the
\* loop moves to the next market, what the venue and the trackers hold for the
\* market left behind is renamed to PrevUpToken and PrevDownToken. main.market
\* counts the markets traded so far.
\* ------------------------------------------------------------------------
PrevUpToken == OldToken
PrevDownToken == LongId(4, 4)
\* the condition id, subscribed to when the token ids cannot be fetched
FallbackToken == LongId(5, 5)
PrevTokens == {PrevUpToken, PrevDownToken}

Rekey(token) ==
    IF token = UpToken THEN PrevUpToken
    ELSE IF token = DownToken THEN PrevDownToken ELSE token
RekeyOrders(orders) ==
    [k \in {Rekey(x) : x \in DOMAIN orders} |->
        [orders[CHOOSE x \in DOMAIN orders : Rekey(x) = k] EXCEPT !.token = k]]
RekeyPositions(positions) ==
    [k \in {Rekey(x) : x \in DOMAIN positions} |->
        [positions[CHOOSE x \in DOMAIN positions : Rekey(x) = k] EXCEPT !.market_id = k]]
RekeyVenue(open) == {[o EXCEPT !.token = Rekey(o.token)] : o \in open}

\* lines 223-256: a market with another condition id was found.
\* cancel_orders_for_market is called for the UP token of the old market and its
\* result dropped (kept: the UP orders it did not cancel); subscribe_to_market_ws
\* fetches the token ids and calls update_subscription with them, or with the
\* condition id when the fetch fails, and then the old market stays current.
\* update_subscription's own steps are those of the feed specification; here
\* its effect on the token list and the cache is taken in one step.
MarketSwitch(kept, token_ids) ==
    /\ main.pc = "loop" /\ cyc.pc = "idle" /\ main.market = 1
    /\ LET after_cancel == {o \in venue_open : o.token # UpToken} \cup kept
       IN  IF token_ids
           THEN /\ venue_open' = RekeyVenue(after_cancel)
                /\ order_tracker' = RekeyOrders(order_tracker)
                /\ position_tracker' = RekeyPositions(position_tracker)
                /\ subscribed_tokens' = <<UpToken, DownToken>>
                /\ main' = [main EXCEPT !.market = 2]
           ELSE /\ venue_open' = after_cancel
                /\ subscribed_tokens' = <<FallbackToken>>
                /\ UNCHANGED <<order_tracker, position_tracker, main>>
    /\ last_prices' = <<>>
    /\ written' = {}
    /\ UNCHANGED <<simulation_mode, next_order_id, first_cycle, orders_placed, cyc, call, poc,
                   hist, running, msg_counter, tasks, us, mainFrame>>

NextRotate ==
    \/ Next
    \/ \E kept \in SUBSET {o \in venue_open : o.token = UpToken}, token_ids \in BOOLEAN :
         MarketSwitch(kept, token_ids)

SpecRotate == InitLive /\ [][NextRotate]_vars

\* C38: once the loop has switched, a cycle on the new market runs only with
\* no order of the old market's UP or DOWN token open at the venue.
OldMarketOrdersCancelled ==
    main.market = 2 /\ cyc.pc # "idle" => \A o \in venue_open : o.token \notin PrevTokens

\* the trading tick fires again and again ("fair scheduling of trading ticks")
SpecRotateFair == SpecRotate /\ WF_vars(SkipFirstCycle) /\ WF_vars(TradingTick)

Tracked(order_id) ==
    \E k \in DOMAIN order_tracker : order_tracker[k].order_id = order_id
\* ticks still start cycles: the exploration has not reached its order bound
TicksGoOn == orders_placed < MaxOrders

\* C34: when cycles keep reaching the clear of the ledger and keep ending, an
\* order tracked in the ledger is eventually out of the ledger, as long as
\* ticks keep starting cycles.
TrackedEventuallyRemoved ==
    []<>(cyc.pc = "clear") /\ []<>(cyc.pc = "idle") =>
        \A order_id \in 1..MaxOrders :
            (Tracked(order_id) /\ TicksGoOn) ~> (~Tracked(order_id) \/ ~TicksGoOn)

====
